---- MODULE Spec2Model ----
(***************************************************************************)
(* Model of the altverse backend's two store-coordinated subsystems:       *)
(*   - the per-client rate limiter  (lambda/src/utils/rate_limitter.py)    *)
(*   - the metrics recorder         (lambda/src/endpoints/metrics.py and   *)
(*                                   lambda/src/endpoints/metrics/*.py)    *)
(* Handlers are stateless Lambda invocations; every store call (DynamoDB   *)
(* get_item / put_item / update_item / transact_write_items) is one atomic *)
(* step, and invocations interleave between store calls.                   *)
(***************************************************************************)
EXTENDS Integers, Sequences, FiniteSets, TLC

(***************************************************************************)
(* Program constants (config.py), scaled down so that a whole window can   *)
(* be exhausted and rolled over inside the explored state space.  The      *)
(* algorithm never depends on the particular values.                       *)
(***************************************************************************)
\* config.py:12 RATE_LIMIT = 5000 (scaled)
RATE_LIMIT == 2
\* config.py:13 BUCKET_DURATION = 300 (scaled)
BUCKET_DURATION == 2

(***************************************************************************)
(* Bounds of the model.                                                    *)
(***************************************************************************)
\* handler instances that may run rate_limit at the same time
NProcs == 2
\* rate_limit invocations started in one behaviour
MaxReqs == 3
\* clock ticks (seconds) in one behaviour
MaxTicks == 2
\* store faults in one behaviour
MaxFaults == 1
\* seconds per UTC day of the model's clock (the TTL is the next midnight)
DayLength == 4
\* metrics handler instances that may run at the same time
NHandlers == 2
\* metrics requests started in one behaviour
MaxEvents == 2

\* how far the clock advances in the metrics specifications
MaxDayTicks == 1
\* days that pass in the analytics specification
MaxDays == 3
\* days the clock of the period-key specification runs over
MaxSpan == 70

Procs == 1..NProcs
Handlers == 1..NHandlers
\* client identifiers get_client_ip can return
Clients == {"ipA", "ipB"}
Unknown == "unknown"
\* the clock starts after the epoch, so that epoch + BUCKET_DURATION is past
T0 == BUCKET_DURATION + 1
Times == T0..(T0 + MaxTicks)

Max(a, b) == IF a >= b THEN a ELSE b

RECURSIVE SumOver(_, _)
\* the sum of f[x] over the finite set S
SumOver(f, S) ==
  IF S = {} THEN 0
  ELSE LET x == CHOOSE y \in S : TRUE IN f[x] + SumOver(f, S \ {x})

VARIABLES
  now,        \* wall clock, whole seconds (time.time(), datetime.now)
  table,      \* rate_limit_table: client -> item
  pc,         \* per handler instance: position inside rate_limit
  loc,        \* per handler instance: locals of the invocation in flight
  resp,       \* the invocation that returned last, with its response
  nreq,       \* number of invocations started (bounds the behaviour)
  faults,     \* number of store faults so far (bounds the behaviour)
  admits,     \* history (SpecRace): issue time -> number of admitted requests
  wstarts,    \* history (SpecRace): every last_replenish_time ever stored
  seqh,       \* history of a sequential run (SpecSeq)
  burst,      \* history of a burst of concurrent requests (SpecBurst)
  metrics,    \* metrics_table, by kind of item: key -> item
  mpc,        \* per metrics handler instance: position inside handle
  mloc,       \* per metrics handler instance: locals of the event in flight
  mresp,      \* the status code of the metrics response sent last
  nev,        \* number of metrics requests started (bounds the behaviour)
  recorded,   \* history: events answered 200, per event type
  aresp       \* the analytics query being answered, with its response

rlstate == <<table, pc, loc, resp, nreq>>

rlhist == <<admits, wstarts, seqh, burst>>

mvars == <<metrics, mpc, mloc, mresp, nev, recorded, aresp>>

vars == <<now, table, pc, loc, resp, nreq, faults, admits, wstarts, seqh, burst,
          metrics, mpc, mloc, mresp, nev, recorded, aresp>>

\* an absent item; the fields are the defaults of item.get(..., 0)
NoItem == [exists |-> FALSE, credits |-> 0, last_replenish_time |-> 0, ttl |-> 0]

Item(c, t, ttl) == [exists |-> TRUE, credits |-> c, last_replenish_time |-> t, ttl |-> ttl]

\* "tomorrow midnight" (UTC) as an epoch second
NextMidnight(t) == ((t \div DayLength) + 1) * DayLength

IdleLoc == [ip |-> Unknown, ct |-> 0, faulted |-> FALSE]

NoResp ==
  [ip |-> Unknown, ct |-> 0, faulted |-> FALSE, result |-> "none",
   reset_time |-> 0, retry |-> 0]

NoSeqh ==
  [lastResult |-> [c \in Clients |-> "none"], served |-> [c \in Clients |-> 0],
   prevDenied |-> FALSE, ws0 |-> 0, sawAbsent |-> FALSE, idx |-> 0]

NoBurst == [k |-> 0, outcome |-> [p \in Procs |-> "none"], condFailed |-> FALSE]

(***************************************************************************)
(* PeriodClock: utils.get_time_periods on the model's clock                *)
(***************************************************************************)

\* days since 1970-01-01 of the civil date y-m-d (proleptic Gregorian)
DaysFromCivil(y, m, d) ==
  LET yy == IF m <= 2 THEN y - 1 ELSE y
      era == yy \div 400
      yoe == yy - era * 400
      mp == IF m > 2 THEN m - 3 ELSE m + 9
      doy == (153 * mp + 2) \div 5 + d - 1
      doe == yoe * 365 + yoe \div 4 - yoe \div 100 + doy IN
  era * 146097 + doe - 719468

\* the civil date <<y, m, d>> of a day number
CivilFromDays(z0) ==
  LET z == z0 + 719468
      era == z \div 146097
      doe == z - era * 146097
      yoe == (doe - doe \div 1460 + doe \div 36524 - doe \div 146096) \div 365
      doy == doe - (365 * yoe + yoe \div 4 - yoe \div 100)
      mp == (5 * doy + 2) \div 153
      d == doy - (153 * mp + 2) \div 5 + 1
      m == IF mp < 10 THEN mp + 3 ELSE mp - 9
      y == yoe + era * 400 + (IF m <= 2 THEN 1 ELSE 0) IN
  <<y, m, d>>

\* the day on which the model's clock reads 0: Sunday 2024-12-29, so that
\* the first midnight starts a new ISO week (2025-01)
Day0 == DaysFromCivil(2024, 12, 29)

\* the UTC day number of instant t
DayOf(t) == Day0 + (t \div DayLength)

\* date.weekday(): Monday is 0 (1970-01-01 was a Thursday)
weekday(day) == (day + 3) % 7

\* date.isocalendar(): <<ISO year, ISO week>>, the year and week of the
\* Thursday of the day's week
isocalendar(day) ==
  LET thursday == day - weekday(day) + 3
      year == CivilFromDays(thursday)[1] IN
  <<year, (thursday - DaysFromCivil(year, 1, 1)) \div 7 + 1>>

\* bucket keys with weeks that start on Sunday
get_time_periods_sunday(t) ==
  LET day == DayOf(t)
      ymd == CivilFromDays(day) IN
  [daily |-> ymd,
   weekly |-> CivilFromDays(day - ((weekday(day) + 1) % 7)),
   monthly |-> <<ymd[1], ymd[2], 1>>,
   leaderboard_week |-> isocalendar(day)]

\* utils.get_time_periods: the bucket keys of instant t
get_time_periods(t) ==
  LET day == DayOf(t)
      ymd == CivilFromDays(day) IN
  [daily |-> ymd,
   weekly |-> CivilFromDays(day - weekday(day)),
   monthly |-> <<ymd[1], ymd[2], 1>>,
   leaderboard_week |-> isocalendar(day)]

\* datetime.isoformat(): the date and the time of day
isoformat(t) == <<CivilFromDays(DayOf(t)), t % DayLength>>

\* datetime.fromisoformat()
fromisoformat(ts) ==
  (DaysFromCivil(ts[1][1], ts[1][2], ts[1][3]) - Day0) * DayLength + ts[2]

(***************************************************************************)
(* Metrics store: DynamoDB items as sparse attribute maps                  *)
(***************************************************************************)

\* an item with no attribute (what a read of an absent key yields)
EmptyItem == [a \in {} |-> 0]

\* metrics_table, split by key pattern:
\*   events      (USER#u, TYPE#timestamp#tx_hash)   key <<u, type, timestamp, tx>>
\*   users       (USER#u, STATS)                    key u
\*   general     (STAT#type#start, GENERAL)         key <<type, start>>
\*   breakdown   (STAT#type#start, KIND#dims)       key <<<<type, start>>, <<kind, a, b>>>>
\*   leaderboard (LEADERBOARD#week, USER#u)         key <<week, u>>
EmptyStore ==
  [events |-> EmptyItem, users |-> EmptyItem, general |-> EmptyItem,
   breakdown |-> EmptyItem, leaderboard |-> EmptyItem]

\* STAT#all#ALL
AllTime == <<"all", <<0, 0, 0>>>>

GetItem(tbl, key) == IF key \in DOMAIN tbl THEN tbl[key] ELSE EmptyItem

PutItem(tbl, key, item) ==
  [k \in DOMAIN tbl \cup {key} |-> IF k = key THEN item ELSE tbl[k]]

\* if_not_exists(attr, default)
if_not_exists(item, attr, default) ==
  IF attr \in DOMAIN item THEN item[attr] ELSE default

\* "SET attr = :z + :n": the existing value is not read
add_if_absent_overwrite(item, attr, n) == 0 + n

\* "SET attr = if_not_exists(attr, :z) + :n"
add_if_absent(item, attr, n) == if_not_exists(item, attr, 0) + n

\* a SET expression whose if_not_exists(attr, :v) assigns :v
SetClause_assign(item, c) ==
  CASE c.op = "add" -> add_if_absent(item, c.attr, c.val)
    [] c.op = "init" -> c.val
    [] c.op = "set" -> c.val

\* one clause of a SET expression, evaluated on the item as it was
SetClause(item, c) ==
  CASE c.op = "add" -> add_if_absent(item, c.attr, c.val)
    [] c.op = "init" -> if_not_exists(item, c.attr, c.val)
    [] c.op = "set" -> c.val

\* the item replaced by the attributes the expression names
UpdateExpression_replace(item, clauses) ==
  LET named == {clauses[i].attr : i \in 1..Len(clauses)} IN
  [a \in named |->
     SetClause(item, clauses[CHOOSE i \in 1..Len(clauses) : clauses[i].attr = a])]

\* update_item with a SET expression (a sequence of clauses); an absent
\* item is created
UpdateExpression(item, clauses) ==
  LET named == {clauses[i].attr : i \in 1..Len(clauses)} IN
  [a \in DOMAIN item \cup named |->
     IF a \in named
     THEN SetClause(item, clauses[CHOOSE i \in 1..Len(clauses) : clauses[i].attr = a])
     ELSE item[a]]

\* one operation of a transaction applied to the store
ApplyOp(store, o) ==
  IF o.op = "Put"
  THEN [store EXCEPT ![o.tbl] = PutItem(@, o.key, o.item)]
  ELSE [store EXCEPT ![o.tbl] =
          PutItem(@, o.key, UpdateExpression(GetItem(@, o.key), o.sets))]

RECURSIVE ApplyAll(_, _)
ApplyAll(store, ops) ==
  IF ops = <<>> THEN store
  ELSE ApplyAll(ApplyOp(store, Head(ops)), Tail(ops))

\* TransactWriteItems refuses two operations on one item
DistinctKeys(ops) ==
  Cardinality({<<ops[i].tbl, ops[i].key>> : i \in 1..Len(ops)}) = Len(ops)

\* writes issued one by one, stopping at the failure
transact_write_items_unbatched(store, ops, ok) ==
  IF ok /\ DistinctKeys(ops) THEN ApplyAll(store, ops)
  ELSE ApplyAll(store, SubSeq(ops, 1, Len(ops) \div 2))

\* a transaction whose event record exists already is dropped
transact_write_items_dedup(store, ops, ok) ==
  IF ops[1].key \in DOMAIN store[ops[1].tbl] THEN store
  ELSE IF ok /\ DistinctKeys(ops) THEN ApplyAll(store, ops) ELSE store

\* transact_write_items: every operation is applied, or none is
transact_write_items(store, ops, ok) ==
  IF ok /\ DistinctKeys(ops) THEN ApplyAll(store, ops) ELSE store

(***************************************************************************)
(* MetricsRecorder: inputs                                                 *)
(***************************************************************************)

Users == {"0xA", "0xB"}

\* process_swap: required
SwapRequired ==
  <<"user_address", "tx_hash", "protocol", "swap_provider", "source_chain",
    "source_token_address", "source_token_symbol", "amount_in",
    "destination_chain", "destination_token_address",
    "destination_token_symbol", "amount_out", "timestamp">>

\* process_lending: required
LendingRequired ==
  <<"user_address", "tx_hash", "protocol", "action", "chain", "market_name",
    "token_address", "token_symbol", "amount", "timestamp">>

\* process_earn: required
EarnRequired ==
  <<"user_address", "tx_hash", "protocol", "action", "chain", "vault_name",
    "vault_address", "token_address", "token_symbol", "amount", "timestamp">>

SwapPayload(u, src, dst) ==
  [user_address |-> u, tx_hash |-> "0x1", protocol |-> "mayan",
   swap_provider |-> "mayan", source_chain |-> src,
   source_token_address |-> "0xS", source_token_symbol |-> "S", amount_in |-> 1,
   destination_chain |-> dst, destination_token_address |-> "0xD",
   destination_token_symbol |-> "D", amount_out |-> 1, timestamp |-> 1]

LendingPayload(u, chain, market) ==
  [user_address |-> u, tx_hash |-> "0x1", protocol |-> "aave",
   action |-> "supply", chain |-> chain, market_name |-> market,
   token_address |-> "0xT", token_symbol |-> "T", amount |-> 1, timestamp |-> 1]

EarnPayload(u, chain, protocol) ==
  [user_address |-> u, tx_hash |-> "0x1", protocol |-> protocol,
   action |-> "deposit", chain |-> chain, vault_name |-> "v",
   vault_address |-> "0xV", token_address |-> "0xT", token_symbol |-> "T",
   amount |-> 1, timestamp |-> 1]

\* a payload without one of its fields
Without(payload, f) == [x \in DOMAIN payload \ {f} |-> payload[x]]

Body(t, payload) == [eventType |-> t, payload |-> payload, ip |-> "ipA"]

\* the request bodies the /metrics endpoint is driven with
Bodies ==
  <<Body("swap", SwapPayload("0xA", "eth", "arb")),
    Body("swap", SwapPayload("0xB", "arb", "eth")),
    Body("lending", LendingPayload("0xA", "eth", "core")),
    Body("earn", EarnPayload("0xB", "eth", "etherfi")),
    Body("entrance", EmptyItem),
    Body("swap", Without(SwapPayload("0xA", "eth", "arb"), "tx_hash")),
    Body("stake", EmptyItem),
    Body("", EmptyItem),
    Body("lending", Without(LendingPayload("0xA", "eth", "core"), "market_name")),
    Body("earn", Without(EarnPayload("0xB", "eth", "etherfi"), "timestamp")),
    Body("lending", LendingPayload("0xA", "arb", "core"))>>

IdleM == [b |-> 0, now |-> 0, is_new |-> FALSE, last_active |-> <<>>, step |-> 0]

\* no /metrics response yet; error holds the field names a 400 body lists
NoMResp == [status |-> 0, error |-> <<>>]

NoRecorded ==
  [swap |-> 0, lending |-> 0, earn |-> 0, entrance |-> 0, keys |-> {},
   aborted |-> FALSE, active |-> {}]

\* no analytics query is being answered
NoAResp == [query |-> "none", req |-> <<>>, status |-> 0, body |-> <<>>, calls |-> 0]

InitMetrics ==
  /\ metrics = EmptyStore
  /\ mpc = [h \in Handlers |-> "idle"]
  /\ mloc = [h \in Handlers |-> IdleM]
  /\ mresp = NoMResp
  /\ nev = 0
  /\ recorded = NoRecorded
  /\ aresp = NoAResp

InitRL ==
  /\ now = T0
  /\ table = [c \in Clients |-> NoItem]
  /\ pc = [p \in Procs |-> "idle"]
  /\ loc = [p \in Procs |-> IdleLoc]
  /\ resp = NoResp
  /\ nreq = 0
  /\ faults = 0
  /\ admits = [t \in Times |-> 0]
  /\ wstarts = {}
  /\ seqh = NoSeqh
  /\ burst = NoBurst
  /\ InitMetrics

(***************************************************************************)
(* Rate limiter: helpers                                                   *)
(***************************************************************************)

\* check_rate_limits: "if the bucket duration has passed"
Expired_strict(ct, item) == ct - item.last_replenish_time > BUCKET_DURATION

Expired(ct, item) == ct - item.last_replenish_time >= BUCKET_DURATION

\* rate_limit: ConditionExpression "credits > :zero" (false on an absent item)
ConditionExpression_none(item) == item.exists

ConditionExpression(item) == item.exists /\ item.credits > 0

\* update_new_ip: the item a first request stores
NewIpItem(ct, t) == Item(RATE_LIMIT - 1, ct, NextMidnight(t))

\* check_rate_limits: the item a rollover stores
ResetItem(ct, t) == Item(RATE_LIMIT, ct, NextMidnight(t))

\* a response that always announces a whole window
build_rate_limit_response_window(reset_time, t) == BUCKET_DURATION

\* build_rate_limit_response: retry_after_seconds at the time of the response
build_rate_limit_response(reset_time, t) == Max(0, reset_time - t)

\* rate_limit returns for handler p with outcome res
Complete(p, res, reset) ==
  LET ip == loc[p].ip
      ct == loc[p].ct IN
  /\ pc' = [pc EXCEPT ![p] = "idle"]
  /\ loc' = [loc EXCEPT ![p] = IdleLoc]
  /\ resp' = [ip |-> ip, ct |-> ct, faulted |-> loc[p].faulted, result |-> res,
              reset_time |-> reset,
              retry |-> IF res = "denied"
                        THEN build_rate_limit_response(reset, now)
                        ELSE 0]

\* rate_limit is left by an exception, or returns after a swallowed one
CompleteFault(p, res) ==
  LET ip == loc[p].ip
      ct == loc[p].ct IN
  /\ pc' = [pc EXCEPT ![p] = "idle"]
  /\ loc' = [loc EXCEPT ![p] = IdleLoc]
  /\ resp' = [ip |-> ip, ct |-> ct, faulted |-> TRUE, result |-> res,
              reset_time |-> 0, retry |-> 0]
  /\ faults' = faults + 1

(***************************************************************************)
(* Rate limiter: actions                                                   *)
(***************************************************************************)

\* the clock advances by one second
Tick ==
  /\ now < T0 + MaxTicks
  /\ now' = now + 1
  /\ UNCHANGED <<table, pc, loc, resp, nreq, faults>>

\* a rate_limit that charges the requests without a client identifier to
\* the record of "ipA"
rate_limit_shared(p, ip) ==
  /\ pc[p] = "idle"
  /\ nreq' = nreq + 1
  /\ pc' = [pc EXCEPT ![p] = "get"]
  /\ loc' = [loc EXCEPT ![p] = [ip |-> IF ip = Unknown THEN "ipA" ELSE ip,
                                ct |-> now, faulted |-> FALSE]]
  /\ UNCHANGED <<resp, now, table, faults>>

\* rate_limit is entered for a request whose client identifier is ip;
\* "unknown" returns at once, otherwise check_rate_limits reads the clock
rate_limit(p, ip) ==
  /\ pc[p] = "idle"
  /\ nreq' = nreq + 1
  /\ IF ip = Unknown
     THEN /\ resp' = [NoResp EXCEPT !.result = "allowed"]
          /\ UNCHANGED <<pc, loc>>
     ELSE /\ pc' = [pc EXCEPT ![p] = "get"]
          /\ loc' = [loc EXCEPT ![p] = [ip |-> ip, ct |-> now, faulted |-> FALSE]]
          /\ UNCHANGED resp
  /\ UNCHANGED <<now, table, faults>>

\* check_rate_limits: the consistent get_item and the decisions taken on it
check_rate_limits(p) ==
  LET ip == loc[p].ip
      ct == loc[p].ct
      item == table[ip] IN
  /\ pc[p] = "get"
  /\ IF ~item.exists
     THEN /\ pc' = [pc EXCEPT ![p] = "put_new"]
          /\ UNCHANGED <<loc, resp>>
     ELSE IF Expired(ct, item)
     THEN /\ pc' = [pc EXCEPT ![p] = "put_reset"]
          /\ UNCHANGED <<loc, resp>>
     ELSE IF item.credits <= 0
     THEN Complete(p, "denied", item.last_replenish_time + BUCKET_DURATION)
     ELSE /\ pc' = [pc EXCEPT ![p] = "update"]
          /\ UNCHANGED <<loc, resp>>
  /\ UNCHANGED <<now, table, nreq, faults>>

\* update_new_ip: put_item of a fresh record; check_rate_limits returns True
update_new_ip(p) ==
  LET ip == loc[p].ip
      ct == loc[p].ct IN
  /\ pc[p] = "put_new"
  /\ table' = [table EXCEPT ![ip] = NewIpItem(ct, now)]
  /\ pc' = [pc EXCEPT ![p] = "update"]
  /\ UNCHANGED <<now, loc, resp, nreq, faults>>

\* check_rate_limits: put_item replacing an expired record, then the
\* "credits <= 0" test on the reset values
replenish(p) ==
  LET ip == loc[p].ip
      ct == loc[p].ct IN
  /\ pc[p] = "put_reset"
  /\ table' = [table EXCEPT ![ip] = ResetItem(ct, now)]
  /\ IF ResetItem(ct, now).credits <= 0
     THEN Complete(p, "denied", ct + BUCKET_DURATION)
     ELSE /\ pc' = [pc EXCEPT ![p] = "update"]
          /\ UNCHANGED <<loc, resp>>
  /\ UNCHANGED <<now, nreq, faults>>

\* check_rate_limits: any exception of get_item or put_item is caught and
\* the request is allowed (it goes on to the decrement)
check_rate_limits_fault(p) ==
  /\ pc[p] \in {"get", "put_new", "put_reset"}
  /\ faults < MaxFaults
  /\ pc' = [pc EXCEPT ![p] = "update"]
  /\ loc' = [loc EXCEPT ![p].faulted = TRUE]
  /\ faults' = faults + 1
  /\ UNCHANGED <<now, table, resp, nreq>>

\* a decrement that also restarts the window
decrement_touch(p) ==
  LET ip == loc[p].ip
      item == table[ip] IN
  /\ pc[p] = "update"
  /\ IF ConditionExpression(item)
     THEN /\ table' = [table EXCEPT ![ip].credits = @ - 1,
                                    ![ip].last_replenish_time = now]
          /\ Complete(p, "allowed", 0)
     ELSE /\ pc' = [pc EXCEPT ![p] = "reread"]
          /\ UNCHANGED <<table, loc, resp>>
  /\ UNCHANGED <<now, nreq, faults>>

\* rate_limit: the conditional update_item
decrement(p) ==
  LET ip == loc[p].ip
      item == table[ip] IN
  /\ pc[p] = "update"
  /\ IF ConditionExpression(item)
     THEN /\ table' = [table EXCEPT ![ip].credits = @ - 1]
          /\ Complete(p, "allowed", 0)
     ELSE \* ConditionalCheckFailedException
          /\ pc' = [pc EXCEPT ![p] = "reread"]
          /\ UNCHANGED <<table, loc, resp>>
  /\ UNCHANGED <<now, nreq, faults>>

\* rate_limit: update_item raises.  A ClientError other than the failed
\* condition is logged and the request allowed; an exception that is no
\* ClientError (botocore's connection and timeout errors) is not caught.
decrement_fault(p, kind) ==
  /\ pc[p] = "update"
  /\ faults < MaxFaults
  /\ CompleteFault(p, IF kind = "ClientError" THEN "allowed" ELSE "error")
  /\ UNCHANGED <<now, table, nreq>>

\* rate_limit: after a failed condition, get_item and the 429 response
denied_after_condition(p) ==
  LET ip == loc[p].ip
      item == table[ip] IN
  /\ pc[p] = "reread"
  /\ Complete(p, "denied", item.last_replenish_time + BUCKET_DURATION)
  /\ UNCHANGED <<now, table, nreq, faults>>

\* rate_limit: the get_item after a failed condition raises inside the
\* except block, so the exception leaves rate_limit
denied_after_condition_fault(p) ==
  /\ pc[p] = "reread"
  /\ faults < MaxFaults
  /\ CompleteFault(p, "error")
  /\ UNCHANGED <<now, table, nreq>>

(***************************************************************************)
(* Rate limiter: specifications                                            *)
(***************************************************************************)

\* a step of the rate limiter that keeps no history
Plain(A) == A /\ UNCHANGED <<admits, wstarts, seqh, burst>> /\ UNCHANGED mvars

\* concurrent handler instances serving one client, store faults included
NextRL ==
  \/ Plain(Tick)
  \/ \E p \in Procs : Plain(nreq < MaxReqs /\ rate_limit(p, "ipA"))
  \/ \E p \in Procs : Plain(check_rate_limits(p))
  \/ \E p \in Procs : Plain(update_new_ip(p))
  \/ \E p \in Procs : Plain(replenish(p))
  \/ \E p \in Procs : Plain(check_rate_limits_fault(p))
  \/ \E p \in Procs : Plain(decrement(p))
  \/ \E p \in Procs, kind \in {"ClientError", "BotoCoreError"} :
       Plain(decrement_fault(p, kind))
  \/ \E p \in Procs : Plain(denied_after_condition(p))
  \/ \E p \in Procs : Plain(denied_after_condition_fault(p))

SpecRL == InitRL /\ [][NextRL]_vars

\* History of the admissions of client "ipA": the issue time of every
\* admitted request and every window start stored in its record.
RaceHistory ==
  /\ admits' = IF /\ \E p \in Procs : pc[p] # "idle" /\ pc'[p] = "idle"
                  /\ resp'.result = "allowed"
               THEN [admits EXCEPT ![resp'.ct] = @ + 1]
               ELSE admits
  /\ wstarts' = IF table'["ipA"].exists
                THEN wstarts \cup {table'["ipA"].last_replenish_time}
                ELSE wstarts

InRace(A) == A /\ RaceHistory /\ UNCHANGED <<seqh, burst>> /\ UNCHANGED mvars

\* concurrent handler instances serving one client, no store fault
NextRace ==
  \/ InRace(Tick)
  \/ \E p \in Procs : InRace(nreq < MaxReqs + 1 /\ rate_limit(p, "ipA"))
  \/ \E p \in Procs : InRace(check_rate_limits(p))
  \/ \E p \in Procs : InRace(update_new_ip(p))
  \/ \E p \in Procs : InRace(replenish(p))
  \/ \E p \in Procs : InRace(decrement(p))
  \/ \E p \in Procs : InRace(denied_after_condition(p))

SpecRace == InitRL /\ [][NextRace]_vars

\* History of a sequential run, read off the step of handler 1: what the
\* request found when it was issued, and its number among the requests
\* served from the record's current window.
SeqHistory ==
  LET ipS == loc'[1].ip
      ipC == loc[1].ip
      isPut == pc[1] \in {"put_new", "put_reset"} /\ table' # table
      base == IF isPut THEN [seqh.served EXCEPT ![ipC] = 0] ELSE seqh.served IN
  seqh' =
    IF pc[1] = "idle" /\ pc'[1] = "get"
    THEN [seqh EXCEPT !.prevDenied = (seqh.lastResult[ipS] = "denied"),
                      !.ws0 = table[ipS].last_replenish_time,
                      !.sawAbsent = ~table[ipS].exists,
                      !.idx = 0]
    ELSE IF pc[1] # "idle" /\ pc'[1] = "idle"
    THEN [seqh EXCEPT !.served = [base EXCEPT ![ipC] = @ + 1],
                      !.idx = base[ipC] + 1,
                      !.lastResult = [@ EXCEPT ![ipC] = resp'.result]]
    ELSE [seqh EXCEPT !.served = base]

InSeq(A) == A /\ SeqHistory /\ UNCHANGED <<admits, wstarts, burst>> /\ UNCHANGED mvars

\* one request at a time, no store fault
NextSeq ==
  \/ InSeq(Tick)
  \/ \E ip \in Clients \cup {Unknown} : InSeq(nreq < MaxReqs + 2 /\ rate_limit(1, ip))
  \/ InSeq(check_rate_limits(1))
  \/ InSeq(update_new_ip(1))
  \/ InSeq(replenish(1))
  \/ InSeq(decrement(1))

SpecSeq == InitRL /\ [][NextSeq]_vars

\* A burst: the record of client "ipA" holds k credits in an unexpired
\* window, and every handler instance serves one request of that client.
InitBurst ==
  /\ now = T0
  /\ \E k \in 0..RATE_LIMIT :
       /\ table = [c \in Clients |->
                     IF c = "ipA" THEN Item(k, T0, NextMidnight(T0)) ELSE NoItem]
       /\ burst = [NoBurst EXCEPT !.k = k]
  /\ pc = [p \in Procs |-> "idle"]
  /\ loc = [p \in Procs |-> IdleLoc]
  /\ resp = NoResp
  /\ nreq = 0
  /\ faults = 0
  /\ admits = [t \in Times |-> 0]
  /\ wstarts = {}
  /\ seqh = NoSeqh
  /\ InitMetrics

\* History of a burst: the outcome of each handler's request
BurstHistory ==
  burst' = [burst EXCEPT
              !.outcome = [p \in Procs |->
                             IF pc[p] # "idle" /\ pc'[p] = "idle"
                             THEN resp'.result ELSE @[p]],
              !.condFailed = @ \/ \E p \in Procs : pc'[p] = "reread"]

InBurst(A) == A /\ BurstHistory /\ UNCHANGED <<admits, wstarts, seqh>> /\ UNCHANGED mvars

\* the clock advances inside the record's window
NextBurst ==
  \/ InBurst(now + 1 < T0 + BUCKET_DURATION /\ Tick)
  \/ \E p \in Procs : InBurst(burst.outcome[p] = "none" /\ rate_limit(p, "ipA"))
  \/ \E p \in Procs : InBurst(check_rate_limits(p))
  \/ \E p \in Procs : InBurst(decrement(p))
  \/ \E p \in Procs : InBurst(denied_after_condition(p))

SpecBurst == InitBurst /\ [][NextBurst]_vars


(***************************************************************************)
(* MetricsRecorder: helpers                                                *)
(***************************************************************************)

\* every event type awarded the XP of a swap
TypeInfo_flat(t) ==
  CASE t = "swap" ->
         [count |-> "swap_count", total |-> "total_swap_count", sk |-> "SWAP",
          xp |-> 50, required |-> SwapRequired]
    [] t = "lending" ->
         [count |-> "lending_count", total |-> "total_lending_count", sk |-> "LEND",
          xp |-> 50, required |-> LendingRequired]
    [] t = "earn" ->
         [count |-> "earn_count", total |-> "total_earn_count", sk |-> "EARN",
          xp |-> 50, required |-> EarnRequired]

\* what process_swap, process_lending and process_earn differ in
TypeInfo(t) ==
  CASE t = "swap" ->
         [count |-> "swap_count", total |-> "total_swap_count", sk |-> "SWAP",
          xp |-> 50, required |-> SwapRequired]
    [] t = "lending" ->
         [count |-> "lending_count", total |-> "total_lending_count", sk |-> "LEND",
          xp |-> 100, required |-> LendingRequired]
    [] t = "earn" ->
         [count |-> "earn_count", total |-> "total_earn_count", sk |-> "EARN",
          xp |-> 100, required |-> EarnRequired]

\* the swap counted under its destination and source, in that order
Dimension_reversed(t, payload) ==
  CASE t = "swap" -> <<"SWAP", payload.destination_chain, payload.source_chain>>
    [] t = "lending" -> <<"LENDING", payload.chain, payload.market_name>>
    [] t = "earn" -> <<"EARN", payload.chain, payload.protocol>>

\* the sort key of the breakdown counter: SWAP#src,dst, LENDING#chain#market,
\* EARN#chain#protocol
Dimension(t, payload) ==
  CASE t = "swap" -> <<"SWAP", payload.source_chain, payload.destination_chain>>
    [] t = "lending" -> <<"LENDING", payload.chain, payload.market_name>>
    [] t = "earn" -> <<"EARN", payload.chain, payload.protocol>>

\* "all(field in payload for field in required)"
HasRequired(payload, required) ==
  \A i \in 1..Len(required) : required[i] \in DOMAIN payload

\* process_<type>: the field names in the body of the 400 response,
\* f"... missing one or more required fields: {required}"; the other 400
\* responses of handle name no field
missing_fields_error(body) ==
  IF body.eventType \in {"swap", "lending", "earn"}
  THEN TypeInfo(body.eventType).required
  ELSE <<>>

\* every period counted as a new one
PeriodsDiffer_always(last, current_periods) ==
  [daily |-> 1, weekly |-> 1, monthly |-> 1]

\* one comparison, of the days, decides the three increments
PeriodsDiffer_daily(last, current_periods) ==
  LET d == IF last.daily # current_periods.daily THEN 1 ELSE 0 IN
  [daily |-> d, weekly |-> d, monthly |-> d]

\* 1 where the periods differ
PeriodsDiffer(last, current_periods) ==
  [daily |-> IF last.daily # current_periods.daily THEN 1 ELSE 0,
   weekly |-> IF last.weekly # current_periods.weekly THEN 1 ELSE 0,
   monthly |-> IF last.monthly # current_periods.monthly THEN 1 ELSE 0]

\* first action of the user in each period
active_inc(is_new, last_active_ts, current_periods) ==
  IF is_new THEN [daily |-> 1, weekly |-> 1, monthly |-> 1]
  ELSE IF last_active_ts # <<>>
  THEN PeriodsDiffer(get_time_periods(fromisoformat(last_active_ts)), current_periods)
  ELSE [daily |-> 0, weekly |-> 0, monthly |-> 0]

Add(attr, n) == [attr |-> attr, op |-> "add", val |-> n]

Set(attr, v) == [attr |-> attr, op |-> "set", val |-> v]

InitAttr(attr, v) == [attr |-> attr, op |-> "init", val |-> v]

Update(tbl, key, sets) == [op |-> "Update", tbl |-> tbl, key |-> key, sets |-> sets]

\* the key of the event record: (USER#u, TYPE#timestamp#tx_hash)
EventKey(t, payload) ==
  <<payload.user_address, TypeInfo(t).sk, payload.timestamp, payload.tx_hash>>

\* the GENERAL update of one period type, without the breakdown update
PeriodicItems_general(pt, start, info, dim, inc, newUsers) ==
  <<Update("general", <<pt, start>>,
           <<Add(info.count, 1), Add("active_users", inc)>> \o newUsers)>>

\* the GENERAL and breakdown updates of one period type
PeriodicItems(pt, start, info, dim, inc, newUsers) ==
  <<Update("general", <<pt, start>>,
           <<Add(info.count, 1), Add("active_users", inc)>> \o newUsers),
    Update("breakdown", <<<<pt, start>>, dim>>, <<Add("count", 1)>>)>>

\* "if is_new: ... new_users = if_not_exists(new_users, :zero) + :inc"
NewUsers(is_new) == IF is_new THEN <<Add("new_users", 1)>> ELSE <<>>

\* transaction_items as process_swap, process_lending and process_earn build
\* it: info is the event type's constants, ts the current instant's
\* isoformat, cur its periods, inc the active-user increments, dim the
\* breakdown dimension
transaction_items(info, payload, ip, ts, cur, inc, dim, is_new) ==
  <<[op |-> "Put", tbl |-> "events",
     key |-> <<payload.user_address, info.sk, payload.timestamp, payload.tx_hash>>,
     item |-> [a \in DOMAIN payload \cup {"tx_type"} |->
                 IF a = "tx_type" THEN info.sk ELSE payload[a]]],
    Update("users", payload.user_address,
           <<Add(info.total, 1), Set("last_active_timestamp", ts),
             Add("total_xp", info.xp)>>
           \o (IF is_new
               THEN <<Set("first_active_timestamp", ts), Set("ip_address", ip),
                      Set("leaderboard_scope", "GLOBAL")>>
               ELSE <<>>)),
    Update("general", AllTime, <<Add(info.count, 1)>> \o NewUsers(is_new)),
    Update("breakdown", <<AllTime, dim>>, <<Add("count", 1)>>)>>
  \o PeriodicItems("daily", cur.daily, info, dim, inc.daily, NewUsers(is_new))
  \o PeriodicItems("weekly", cur.weekly, info, dim, inc.weekly, NewUsers(is_new))
  \o PeriodicItems("monthly", cur.monthly, info, dim, inc.monthly, NewUsers(is_new))
  \o <<Update("leaderboard", <<cur.leaderboard_week, payload.user_address>>,
              <<Add("xp", info.xp), InitAttr("first_xp_timestamp", ts)>>)>>

\* process_entrance: the keys of its four update_item calls, in order
EntranceKeys(now_t) ==
  LET periods == get_time_periods(now_t) IN
  <<AllTime, <<"daily", periods.daily>>, <<"weekly", periods.weekly>>,
    <<"monthly", periods.monthly>>>>

\* the handler answers with a status code
Respond(h, status) ==
  /\ mpc' = [mpc EXCEPT ![h] = "idle"]
  /\ mloc' = [mloc EXCEPT ![h] = IdleM]
  /\ mresp' = [status |-> status, error |-> <<>>]

\* the transaction of the request handler h is serving
ItemsOf(body, now_t, cur, is_new, last_active_ts) ==
  transaction_items(TypeInfo(body.eventType), body.payload, body.ip,
                    isoformat(now_t), cur,
                    active_inc(is_new, last_active_ts, cur),
                    Dimension(body.eventType, body.payload), is_new)

TxOf(h) ==
  ItemsOf(Bodies[mloc[h].b], mloc[h].now, get_time_periods(mloc[h].now),
          mloc[h].is_new, mloc[h].last_active)

\* commit of transaction tx by handler h
Commit(h, body, tx, ok) ==
  /\ metrics' = transact_write_items(metrics, tx, ok)
  /\ Respond(h, IF ok /\ DistinctKeys(tx) THEN 200 ELSE 500)
  /\ recorded' = IF ok /\ DistinctKeys(tx)
                 THEN [recorded EXCEPT
                         ![body.eventType] = @ + 1,
                         !.keys = @ \cup {EventKey(body.eventType, body.payload)},
                         !.active = @ \cup
                           {<<pt, get_time_periods(mloc[h].now)[pt],
                              body.payload.user_address>> :
                              pt \in {"daily", "weekly", "monthly"}}]
                 ELSE [recorded EXCEPT !.aborted = TRUE]

(***************************************************************************)
(* MetricsRecorder: actions                                                *)
(***************************************************************************)

\* handle without the required-fields check of process_<type>
handle_unvalidated(h, i) ==
  LET body == Bodies[i]
      t == body.eventType IN
  /\ mpc[h] = "idle"
  /\ nev' = nev + 1
  /\ IF t \notin {"entrance", "swap", "lending", "earn"}
     THEN /\ mresp' = [status |-> 400, error |-> missing_fields_error(body)]
          /\ UNCHANGED <<mpc, mloc, recorded>>
     ELSE /\ mpc' = [mpc EXCEPT ![h] = IF t = "entrance" THEN "entrance" ELSE "read"]
          /\ mloc' = [mloc EXCEPT ![h] = [IdleM EXCEPT !.b = i, !.now = now]]
          /\ UNCHANGED <<mresp, recorded>>
  /\ UNCHANGED <<now, faults, metrics>>

\* handle: the request body is parsed and validated; process_<type> reads
\* the clock
handle(h, i) ==
  LET body == Bodies[i]
      t == body.eventType
      bad == \/ t \notin {"entrance", "swap", "lending", "earn"}
             \/ /\ t # "entrance"
                /\ ~HasRequired(body.payload, TypeInfo(t).required) IN
  /\ mpc[h] = "idle"
  /\ nev' = nev + 1
  /\ IF bad
     THEN /\ mresp' = [status |-> 400, error |-> missing_fields_error(body)]
          /\ UNCHANGED <<mpc, mloc, recorded>>
     ELSE /\ mpc' = [mpc EXCEPT ![h] = IF t = "entrance" THEN "entrance" ELSE "read"]
          /\ mloc' = [mloc EXCEPT ![h] = [IdleM EXCEPT !.b = i, !.now = now]]
          /\ UNCHANGED <<mresp, recorded>>
  /\ UNCHANGED <<now, faults, metrics>>

\* get_user_state: get_item of the user's STATS record
get_user_state(h) ==
  LET u == Bodies[mloc[h].b].payload.user_address
      item == GetItem(metrics.users, u) IN
  /\ mpc[h] = "read"
  /\ mloc' = [mloc EXCEPT
                ![h].is_new = u \notin DOMAIN metrics.users,
                ![h].last_active = if_not_exists(item, "last_active_timestamp", <<>>)]
  /\ mpc' = [mpc EXCEPT ![h] = "write"]
  /\ UNCHANGED <<now, faults, metrics, mresp, nev, recorded>>

\* get_user_state: get_item raises.  A ClientError is caught and the user is
\* taken as existing and active now; any other exception reaches handle,
\* which answers 500.
get_user_state_fault(h, kind) ==
  /\ mpc[h] = "read"
  /\ faults < MaxFaults
  /\ faults' = faults + 1
  /\ IF kind = "ClientError"
     THEN /\ mloc' = [mloc EXCEPT ![h].is_new = FALSE,
                                  ![h].last_active = isoformat(now)]
          /\ mpc' = [mpc EXCEPT ![h] = "write"]
          /\ UNCHANGED mresp
     ELSE Respond(h, 500)
  /\ UNCHANGED <<now, metrics, nev, recorded>>

\* process_swap / process_lending / process_earn: the transaction commits
process_event(h) ==
  /\ mpc[h] = "write"
  /\ Commit(h, Bodies[mloc[h].b], TxOf(h), TRUE)
  /\ UNCHANGED <<now, faults, nev>>

\* the transaction is cancelled or the call raises: answered 500
process_event_fault(h) ==
  /\ mpc[h] = "write"
  /\ faults < MaxFaults
  /\ faults' = faults + 1
  /\ Commit(h, Bodies[mloc[h].b], TxOf(h), FALSE)
  /\ UNCHANGED <<now, nev>>

\* the k-th update_item of process_entrance, on the GENERAL item of key;
\* after the last one the handler answers 200
update_entrance(h, k, key, last) ==
  /\ metrics' = [metrics EXCEPT !.general =
                   PutItem(@, key, UpdateExpression(GetItem(@, key),
                                                    <<Add("dapp_entrances", 1)>>))]
  /\ IF k = last
     THEN /\ Respond(h, 200)
          /\ recorded' = [recorded EXCEPT !.entrance = @ + 1]
     ELSE /\ mloc' = [mloc EXCEPT ![h].step = k]
          /\ UNCHANGED <<mpc, mresp, recorded>>

\* process_entrance: the next of its four update_item calls
process_entrance(h) ==
  /\ mpc[h] = "entrance"
  /\ update_entrance(h, mloc[h].step + 1,
                     EntranceKeys(mloc[h].now)[mloc[h].step + 1],
                     Len(EntranceKeys(mloc[h].now)))
  /\ UNCHANGED <<now, faults, nev>>

\* process_entrance: an update_item call raises: answered 500
process_entrance_fault(h) ==
  /\ mpc[h] = "entrance"
  /\ faults < MaxFaults
  /\ faults' = faults + 1
  /\ Respond(h, 500)
  /\ UNCHANGED <<now, metrics, nev, recorded>>

(***************************************************************************)
(* MetricsRecorder: specification                                          *)
(***************************************************************************)

InMetrics(A) == A /\ UNCHANGED rlstate /\ UNCHANGED rlhist /\ UNCHANGED aresp

\* the indices in Bodies of the well-formed swap, lending and earn events
EventBodies == {i \in 1..Len(Bodies) :
                  /\ Bodies[i].eventType \in {"swap", "lending", "earn"}
                  /\ HasRequired(Bodies[i].payload,
                                 TypeInfo(Bodies[i].eventType).required)}

\* one event of each type: the first in Bodies
OneOfEach == {i \in EventBodies :
                \A j \in EventBodies :
                  Bodies[j].eventType = Bodies[i].eventType => i <= j}

\* the swaps
SwapBodies == {i \in EventBodies : Bodies[i].eventType = "swap"}

\* a request goes to the first idle handler (the handlers are alike)
FirstIdle(h) == \A g \in Handlers : g < h => mpc[g] # "idle"

\* the clock of the metrics specifications
MetricsTick ==
  /\ now < T0 + MaxDayTicks
  /\ Tick
  /\ UNCHANGED rlhist
  /\ UNCHANGED mvars

\* swap, lending and earn events, concurrent, with store faults
NextEvents ==
  \/ MetricsTick
  \/ \E h \in Handlers, i \in OneOfEach :
       InMetrics(nev < MaxEvents /\ FirstIdle(h) /\ handle(h, i))
  \/ \E h \in Handlers : InMetrics(get_user_state(h))
  \/ \E h \in Handlers, kind \in {"ClientError", "BotoCoreError"} :
       InMetrics(get_user_state_fault(h, kind))
  \/ \E h \in Handlers : InMetrics(process_event(h))
  \/ \E h \in Handlers : InMetrics(process_event_fault(h))

SpecEvents == InitRL /\ [][NextEvents]_vars

\* swaps of two users, concurrent, the store working
NextSwaps ==
  \/ MetricsTick
  \/ \E h \in Handlers, i \in SwapBodies :
       InMetrics(nev < MaxEvents + 1 /\ FirstIdle(h) /\ handle(h, i))
  \/ \E h \in Handlers : InMetrics(get_user_state(h))
  \/ \E h \in Handlers : InMetrics(process_event(h))

SpecSwaps == InitRL /\ [][NextSwaps]_vars

\* entrances and rejected bodies, concurrent, with store faults
NextEntrance ==
  \/ MetricsTick
  \/ \E h \in Handlers, i \in (1..Len(Bodies)) \ EventBodies :
       InMetrics(nev < MaxEvents /\ FirstIdle(h) /\ handle(h, i))
  \/ \E h \in Handlers : InMetrics(process_entrance(h))
  \/ \E h \in Handlers : InMetrics(process_entrance_fault(h))

SpecEntrance == InitRL /\ [][NextEntrance]_vars

\* swap, lending and earn events of two users, one at a time, the store
\* working
NextSeqEvents ==
  \/ MetricsTick
  \/ \E i \in EventBodies : InMetrics(nev < MaxEvents + 1 /\ handle(1, i))
  \/ InMetrics(get_user_state(1))
  \/ InMetrics(process_event(1))

SpecSeqEvents == InitRL /\ [][NextSeqEvents]_vars

\* the entrance events
EntranceBodies == {i \in 1..Len(Bodies) : Bodies[i].eventType = "entrance"}

\* entrances, concurrent, the store working
NextEntrances ==
  \/ MetricsTick
  \/ \E h \in Handlers, i \in EntranceBodies :
       InMetrics(nev < MaxEvents + 1 /\ FirstIdle(h) /\ handle(h, i))
  \/ \E h \in Handlers : InMetrics(process_entrance(h))

SpecEntrances == InitRL /\ [][NextEntrances]_vars

(***************************************************************************)
(* AnalyticsReader: the read path                                          *)
(***************************************************************************)

\* activity.py:77 "limit > 90" (scaled)
MAX_PERIODS == 3
\* activity.py:66 body.get("limit", 7) (scaled)
DEFAULT_PERIODS == 2
\* leaderboard.py:20 MAX_LEADERBOARD_LIMIT = 1000 (scaled)
MAX_LEADERBOARD_LIMIT == 2
\* leaderboard.py:25 payload.get("limit", 100)
DEFAULT_LEADERBOARD_LIMIT == 100

Min(a, b) == IF a <= b THEN a ELSE b

\* JSON values of a request body: a number, a string (its characters), null,
\* or no value under the key
Number(n) == [kind |-> "int", val |-> n, chars |-> <<>>]

String(cs) == [kind |-> "str", val |-> 0, chars |-> cs]

Null == [kind |-> "null", val |-> 0, chars |-> <<>>]

Absent == [kind |-> "absent", val |-> 0, chars |-> <<>>]

\* a string-valued key that the body does not have
NoKey == "(absent)"

\* body.get(key, default)
body_get(v, default) == IF v.kind = "absent" THEN default ELSE v

DigitVal == [c \in {"0", "1", "2", "3"} |-> CASE c = "0" -> 0 [] c = "1" -> 1
                                              [] c = "2" -> 2 [] c = "3" -> 3]

\* int(v) returns: v is a number or a string of digits (otherwise it raises
\* ValueError or TypeError)
int_ok(v) ==
  \/ v.kind = "int"
  \/ /\ v.kind = "str"
     /\ v.chars # <<>>
     /\ \A i \in 1..Len(v.chars) : v.chars[i] \in DOMAIN DigitVal

RECURSIVE ParseDigits(_, _)
ParseDigits(cs, acc) ==
  IF cs = <<>> THEN acc ELSE ParseDigits(Tail(cs), 10 * acc + DigitVal[Head(cs)])

\* int(v) where it returns
int(v) == IF v.kind = "int" THEN v.val ELSE ParseDigits(v.chars, 0)

\* the start of every period counted as the day before
PrevPeriod_day(period_type, start) ==
  CivilFromDays(DaysFromCivil(start[1], start[2], start[3]) - 1)

\* get_past_periods: the start of the period before the one that starts at
\* start: a day back, a week back, the first day of the previous month
PrevPeriod(period_type, start) ==
  CASE period_type = "daily" ->
         CivilFromDays(DaysFromCivil(start[1], start[2], start[3]) - 1)
    [] period_type = "weekly" ->
         CivilFromDays(DaysFromCivil(start[1], start[2], start[3]) - 7)
    [] period_type = "monthly" ->
         <<CivilFromDays(DaysFromCivil(start[1], start[2], start[3]) - 1)[1],
           CivilFromDays(DaysFromCivil(start[1], start[2], start[3]) - 1)[2], 1>>

RECURSIVE PastPeriods(_, _, _)
\* get_past_periods: "for _ in range(limit)"
PastPeriods(period_type, start, n) ==
  IF n = 0 THEN <<>>
  ELSE <<start>> \o PastPeriods(period_type, PrevPeriod(period_type, start), n - 1)

\* utils.get_past_periods at instant t
get_past_periods(period_type, limit, t) ==
  PastPeriods(period_type, get_time_periods(t)[period_type], limit)

\* ProjectionExpression
Project(item, attrs) == [a \in DOMAIN item \cap attrs |-> item[a]]

\* batch_get_item: the items found, by key
batch_get_item(tbl, keys, attrs) ==
  [k \in keys \cap DOMAIN tbl |-> Project(tbl[k], attrs)]

\* one entry of the periodic activity series
PeriodSummary(date, swap, lending, earn, active_users, dapp_entrances) ==
  [period |-> date,
   total_transactions |-> swap + lending + earn,
   swap_count |-> swap,
   lending_count |-> lending,
   earn_count |-> earn,
   dapp_entrances |-> dapp_entrances,
   active_users |-> active_users,
   transactions_per_active_user |->
     IF active_users > 0 THEN <<swap + lending + earn, active_users>> ELSE <<0, 1>>]

\* get_periodic_activity_stats: the entry of date, from the item found or {}
SummaryOf(date, item) ==
  PeriodSummary(date, if_not_exists(item, "swap_count", 0),
                if_not_exists(item, "lending_count", 0),
                if_not_exists(item, "earn_count", 0),
                if_not_exists(item, "active_users", 0),
                if_not_exists(item, "dapp_entrances", 0))

ActivityAttrs ==
  {"swap_count", "lending_count", "earn_count", "dapp_entrances", "active_users"}

\* get_periodic_activity_stats: results, over the dates in their order
PeriodicResults(period_type, period_dates, stats_map) ==
  [k \in 1..Len(period_dates) |->
     SummaryOf(period_dates[k], GetItem(stats_map, <<period_type, period_dates[k]>>))]

\* get_periodic_activity_stats: the keys are read in one batch_get_item and
\* the results follow the dates
periodic_activity_results(period_type, period_dates) ==
  PeriodicResults(period_type, period_dates,
                  batch_get_item(metrics.general,
                                 {<<period_type, period_dates[j]>> :
                                    j \in 1..Len(period_dates)},
                                 ActivityAttrs))

\* an absent STAT#all#ALL item answered as not found
total_activity_response_notfound(present, item) ==
  IF ~present THEN [status |-> 404, body |-> <<>>]
  ELSE [status |-> 200,
        body |-> [total_transactions |-> if_not_exists(item, "swap_count", 0)
                                           + if_not_exists(item, "lending_count", 0)
                                           + if_not_exists(item, "earn_count", 0),
                  swap_count |-> if_not_exists(item, "swap_count", 0),
                  lending_count |-> if_not_exists(item, "lending_count", 0),
                  earn_count |-> if_not_exists(item, "earn_count", 0),
                  dapp_entrances |-> if_not_exists(item, "dapp_entrances", 0),
                  total_users |-> if_not_exists(item, "new_users", 0)]]

\* get_total_activity_stats: the response, from the result of get_item
total_activity_response(present, item) ==
  IF ~present
  THEN [status |-> 200,
        body |-> [total_transactions |-> 0, swap_count |-> 0, lending_count |-> 0,
                  earn_count |-> 0, dapp_entrances |-> 0, total_users |-> 0]]
  ELSE [status |-> 200,
        body |-> [total_transactions |-> if_not_exists(item, "swap_count", 0)
                                           + if_not_exists(item, "lending_count", 0)
                                           + if_not_exists(item, "earn_count", 0),
                  swap_count |-> if_not_exists(item, "swap_count", 0),
                  lending_count |-> if_not_exists(item, "lending_count", 0),
                  earn_count |-> if_not_exists(item, "earn_count", 0),
                  dapp_entrances |-> if_not_exists(item, "dapp_entrances", 0),
                  total_users |-> if_not_exists(item, "new_users", 0)]]

\* global-leaderboard-by-xp-gsi: the STATS items that carry leaderboard_scope
\* = GLOBAL and total_xp, as <<total_xp, user>>
GlobalIndex ==
  {<<metrics.users[u].total_xp, u>> :
     u \in {v \in DOMAIN metrics.users :
              /\ "total_xp" \in DOMAIN metrics.users[v]
              /\ if_not_exists(metrics.users[v], "leaderboard_scope", "") = "GLOBAL"}}

\* leaderboard-by-xp-gsi under LEADERBOARD#week, as <<xp, user>>
WeeklyIndex(week) ==
  {<<metrics.leaderboard[k].xp, k[2]>> :
     k \in {j \in DOMAIN metrics.leaderboard : j[1] = week}}

RECURSIVE SortDesc(_)
\* ScanIndexForward = False: descending sort key; entries of equal XP come
\* in an order the store chooses
SortDesc(S) ==
  IF S = {} THEN <<>>
  ELSE LET top == CHOOSE e \in S : \A f \in S : f[1] <= e[1] IN
       <<top>> \o SortDesc(S \ {top})

\* the entries after ExclusiveStartKey
AfterKey(seq, last_key) ==
  IF last_key = <<>> \/ \A i \in 1..Len(seq) : seq[i] # last_key THEN seq
  ELSE SubSeq(seq, (CHOOSE i \in 1..Len(seq) : seq[i] = last_key) + 1, Len(seq))

\* get_leaderboard: one formatted item
FormatEntry(scope, e, week) ==
  IF scope = "global"
  THEN [user_address |-> e[2], total_xp |-> e[1],
        first_timestamp |->
          if_not_exists(metrics.users[e[2]], "first_active_timestamp", <<>>)]
  ELSE [user_address |-> e[2], xp |-> e[1],
        first_timestamp |->
          if_not_exists(metrics.leaderboard[<<week, e[2]>>], "first_xp_timestamp", <<>>)]

\* metrics_table.query with Limit and ExclusiveStartKey, formatted: the page
\* and LastEvaluatedKey (set when Limit is reached)
LeaderboardPage(scope, entries, limit, week) ==
  [items |-> [k \in 1..Min(limit, Len(entries)) |-> FormatEntry(scope, entries[k], week)],
   lastKey |-> IF Len(entries) >= limit THEN entries[limit] ELSE <<>>]

\* a response that counts the query in the all-time GENERAL item
Answer_counted(query, req, status, body, calls) ==
  /\ aresp' = [query |-> query, req |-> req, status |-> status, body |-> body,
               calls |-> calls]
  /\ metrics' = [metrics EXCEPT
                   !.general = PutItem(@, AllTime,
                                       add_if_absent(GetItem(@, AllTime), "queries", 1))]
  /\ UNCHANGED <<now, faults, mpc, mloc, mresp, nev, recorded>>

\* build_response
Answer(query, req, status, body, calls) ==
  /\ aresp' = [query |-> query, req |-> req, status |-> status, body |-> body,
               calls |-> calls]
  /\ UNCHANGED <<now, faults, metrics, mpc, mloc, mresp, nev, recorded>>

\* get_total_activity_stats
get_total_activity_stats ==
  /\ aresp = NoAResp
  /\ Answer("total_activity_stats", <<>>,
            total_activity_response(AllTime \in DOMAIN metrics.general,
                                    GetItem(metrics.general, AllTime)).status,
            total_activity_response(AllTime \in DOMAIN metrics.general,
                                    GetItem(metrics.general, AllTime)).body, 1)

\* get_total_users
get_total_users ==
  /\ aresp = NoAResp
  /\ Answer("total_users", <<>>, 200,
            [total_users |->
               if_not_exists(Project(GetItem(metrics.general, AllTime), {"new_users"}),
                             "new_users", 0)], 1)

\* get_periodic_activity_stats, period_type and limit taken from the body
periodic_activity_stats(period_type, limit, req) ==
  IF period_type \notin {"daily", "weekly", "monthly"}
  THEN Answer("periodic_activity_stats", req, 400, "Invalid 'period_type'", 0)
  ELSE IF limit.kind # "int" \/ limit.val < 1 \/ limit.val > MAX_PERIODS
  THEN Answer("periodic_activity_stats", req, 400, "Invalid 'limit'", 0)
  ELSE Answer("periodic_activity_stats", req, 200,
              periodic_activity_results(
                period_type, get_past_periods(period_type, limit.val, now)), 1)

\* get_periodic_activity_stats
get_periodic_activity_stats(period_type, limit) ==
  /\ aresp = NoAResp
  /\ periodic_activity_stats(IF period_type = NoKey THEN "daily" ELSE period_type,
                             body_get(limit, Number(DEFAULT_PERIODS)),
                             <<period_type, limit, now>>)

\* get_user_entry: one batch_get_item of the user's STATS item and of its
\* entry in the current week's leaderboard
get_user_entry(user_address) ==
  /\ aresp = NoAResp
  /\ IF user_address = ""
     THEN Answer("user_leaderboard_entry", <<user_address, now>>, 400,
                 "Missing required parameter: user_address", 0)
     ELSE Answer("user_leaderboard_entry", <<user_address, now>>, 200,
                 [user_address |-> user_address,
                  global_total_xp |->
                    if_not_exists(
                      Project(GetItem(metrics.users, user_address), {"total_xp", "xp"}),
                      "total_xp", 0),
                  weekly_xp |->
                    if_not_exists(
                      Project(GetItem(metrics.leaderboard,
                                      <<get_time_periods(now).leaderboard_week, user_address>>),
                              {"total_xp", "xp"}),
                      "xp", 0)], 1)

\* get_leaderboard, the limit converted: the scope is checked, then the
\* index is queried (a Limit below 1 is refused by the store)
leaderboard_query(scope, limit, last_key, req) ==
  IF scope \notin {"global", "weekly"}
  THEN Answer("leaderboard", req, 400, "Invalid scope", 0)
  ELSE IF limit < 1
  THEN Answer("leaderboard", req, 500, "Could not query leaderboard data", 1)
  ELSE Answer("leaderboard", req, 200,
              LeaderboardPage(
                scope,
                AfterKey(SortDesc(IF scope = "global" THEN GlobalIndex
                                  ELSE WeeklyIndex(get_time_periods(now).leaderboard_week)),
                         last_key),
                limit, get_time_periods(now).leaderboard_week), 1)

\* get_leaderboard: the limit is converted first; int() raising is answered
\* 500 by the handler of Exception
get_leaderboard(scope, limit, last_key) ==
  /\ aresp = NoAResp
  /\ IF ~int_ok(body_get(limit, Number(DEFAULT_LEADERBOARD_LIMIT)))
     THEN Answer("leaderboard", <<scope, limit, last_key>>, 500,
                 "An internal server error occurred", 0)
     ELSE leaderboard_query(scope,
                            Min(int(body_get(limit, Number(DEFAULT_LEADERBOARD_LIMIT))),
                                MAX_LEADERBOARD_LIMIT),
                            last_key, <<scope, limit, last_key>>)

\* the store call of a query raises a ClientError: answered 500
analytics_fault(query) ==
  /\ aresp = NoAResp
  /\ faults < MaxFaults
  /\ aresp' = [NoAResp EXCEPT !.query = query, !.status = 500, !.calls = 1]
  /\ faults' = faults + 1
  /\ UNCHANGED <<now, metrics, mpc, mloc, mresp, nev, recorded>>

\* swap.py: the SWAP# items of the partition of scope, by direction
\* <<source, destination>>, with their count
swap_routes(scope) ==
  [d \in {<<k[2][2], k[2][3]>> :
            k \in {j \in DOMAIN metrics.breakdown : j[1] = scope /\ j[2][1] = "SWAP"}}
     |-> if_not_exists(metrics.breakdown[<<scope, <<"SWAP", d[1], d[2]>>>>], "count", 0)]

\* swap.py: the aggregation of the routes of one partition
swap_summary(routes) ==
  [swap_routes |-> routes,
   routes_total |-> SumOver(routes, DOMAIN routes),
   cross_chain_count |-> SumOver(routes, {d \in DOMAIN routes : d[1] # d[2]}),
   same_chain_count |-> SumOver(routes, {d \in DOMAIN routes : d[1] = d[2]})]

\* get_total_swap_stats: one query of STAT#all#ALL; the total is swap_count
\* of the GENERAL item
get_total_swap_stats ==
  /\ aresp = NoAResp
  /\ Answer("total_swap_stats", <<>>, 200,
            [total_swap_count |->
               if_not_exists(GetItem(metrics.general, AllTime), "swap_count", 0),
             swap_routes |-> swap_routes(AllTime),
             cross_chain_count |-> swap_summary(swap_routes(AllTime)).cross_chain_count,
             same_chain_count |-> swap_summary(swap_routes(AllTime)).same_chain_count],
            1)

\* get_periodic_swap_stats: "limit = min(max(int(body.get("limit", 7)), 1),
\* 90)", the default when int raises
swap_limit(limit) ==
  IF int_ok(body_get(limit, Number(DEFAULT_PERIODS)))
  THEN Min(Max(int(body_get(limit, Number(DEFAULT_PERIODS))), 1), MAX_PERIODS)
  ELSE DEFAULT_PERIODS

\* get_periodic_swap_stats: one query per period; the total of a period is
\* the sum of the counts of its SWAP# items
periodic_swap_results(period_type, period_starts) ==
  [k \in 1..Len(period_starts) |->
     [period_start |-> period_starts[k],
      total_swap_count |->
        swap_summary(swap_routes(<<period_type, period_starts[k]>>)).routes_total,
      swap_routes |-> swap_routes(<<period_type, period_starts[k]>>),
      cross_chain_count |->
        swap_summary(swap_routes(<<period_type, period_starts[k]>>)).cross_chain_count,
      same_chain_count |->
        swap_summary(swap_routes(<<period_type, period_starts[k]>>)).same_chain_count]]

\* get_periodic_swap_stats
get_periodic_swap_stats(period_type, limit) ==
  /\ aresp = NoAResp
  /\ IF period_type \notin {"daily", "weekly", "monthly", NoKey}
     THEN Answer("periodic_swap_stats", <<period_type, limit, now>>, 400,
                 "Invalid period_type", 0)
     ELSE Answer("periodic_swap_stats", <<period_type, limit, now>>, 200,
                 [period_type |-> IF period_type = NoKey THEN "daily" ELSE period_type,
                  data |-> periodic_swap_results(
                             IF period_type = NoKey THEN "daily" ELSE period_type,
                             get_past_periods(
                               IF period_type = NoKey THEN "daily" ELSE period_type,
                               swap_limit(limit), now))],
                 swap_limit(limit))

\* the response is returned to the caller
return_response ==
  /\ aresp # NoAResp
  /\ aresp' = NoAResp
  /\ UNCHANGED <<now, faults, metrics, mpc, mloc, mresp, nev, recorded>>

\* the inputs of the analytics queries
PeriodTypeInputs == {"daily", "weekly", "monthly", "yearly", NoKey}

PeriodLimitInputs == {Number(n) : n \in 0..(MAX_PERIODS + 1)} \cup {Absent, String(<<"2">>)}

ScopeInputs == {"global", "weekly", "monthly", NoKey}

LeaderboardLimitInputs == {Number(0), Number(1), String(<<"2">>), String(<<"x">>), Null, Absent}

\* lastKey: none, or the key of an entry of one of the two indexes
LastKeyInputs ==
  {<<>>} \cup GlobalIndex \cup WeeklyIndex(get_time_periods(now).leaderboard_week)

\* the events and entrances the store of the analytics specification is
\* written by
WriterBodies == {1, 5}

\* the clock advances by a day
DayTick ==
  /\ now < T0 + MaxDays * DayLength
  /\ now' = now + DayLength
  /\ UNCHANGED <<table, pc, loc, resp, nreq, faults>>
  /\ UNCHANGED rlhist
  /\ UNCHANGED mvars

InAnalytics(A) == A /\ UNCHANGED rlstate /\ UNCHANGED rlhist

\* events and entrances recorded one at a time, days passing, and the
\* analytics queries; a query is answered in one step, and its response is
\* returned before the next step
NextAnalytics ==
  \/ aresp = NoAResp /\ DayTick
  \/ \E i \in WriterBodies : InMetrics(aresp = NoAResp /\ nev < MaxEvents /\ handle(1, i))
  \/ InMetrics(aresp = NoAResp /\ get_user_state(1))
  \/ InMetrics(aresp = NoAResp /\ process_event(1))
  \/ InMetrics(aresp = NoAResp /\ process_entrance(1))
  \/ InAnalytics(get_total_activity_stats)
  \/ InAnalytics(get_total_users)
  \/ \E period_type \in PeriodTypeInputs, limit \in PeriodLimitInputs :
       InAnalytics(get_periodic_activity_stats(period_type, limit))
  \/ \E user_address \in Users \cup {""} : InAnalytics(get_user_entry(user_address))
  \/ InAnalytics(analytics_fault("total_activity_stats"))
  \/ InAnalytics(return_response)

SpecAnalytics == InitRL /\ [][NextAnalytics]_vars

\* the swaps the store of the leaderboard specification is written by
LeaderboardWriters == {1, 2}

\* swaps of two users recorded one at a time, days passing, and the
\* leaderboard queries
NextLeaderboard ==
  \/ aresp = NoAResp /\ DayTick
  \/ \E i \in LeaderboardWriters :
       InMetrics(aresp = NoAResp /\ nev < MaxEvents /\ handle(1, i))
  \/ InMetrics(aresp = NoAResp /\ get_user_state(1))
  \/ InMetrics(aresp = NoAResp /\ process_event(1))
  \/ \E scope \in ScopeInputs, limit \in LeaderboardLimitInputs, last_key \in LastKeyInputs :
       InAnalytics(get_leaderboard(scope, limit, last_key))
  \/ InAnalytics(analytics_fault("leaderboard"))
  \/ InAnalytics(return_response)

SpecLeaderboard == InitRL /\ [][NextLeaderboard]_vars

\* the events and entrances of the mixed specification: a swap, a lending
\* event and an entrance
MixedBodies == {1, 3, 5}

\* events and entrances, concurrent, with store faults, and the total
\* activity query, all within one day
NextMixed ==
  \/ \E h \in Handlers, i \in MixedBodies :
       InMetrics(aresp = NoAResp /\ nev < MaxEvents /\ FirstIdle(h) /\ handle(h, i))
  \/ \E h \in Handlers : InMetrics(aresp = NoAResp /\ get_user_state(h))
  \/ \E h \in Handlers, kind \in {"ClientError", "BotoCoreError"} :
       InMetrics(aresp = NoAResp /\ get_user_state_fault(h, kind))
  \/ \E h \in Handlers : InMetrics(aresp = NoAResp /\ process_event(h))
  \/ \E h \in Handlers : InMetrics(aresp = NoAResp /\ process_event_fault(h))
  \/ \E h \in Handlers : InMetrics(aresp = NoAResp /\ process_entrance(h))
  \/ \E h \in Handlers : InMetrics(aresp = NoAResp /\ process_entrance_fault(h))
  \/ InAnalytics(get_total_activity_stats)
  \/ InAnalytics(analytics_fault("total_activity_stats"))
  \/ InAnalytics(return_response)

SpecMixed == InitRL /\ [][NextMixed]_vars

(***************************************************************************)
(* AnalyticsReader: every query over one store                             *)
(***************************************************************************)

\* the swaps and entrances the store of the read specification is written by
ReadWriters == {1, 2, 5}

\* the limits of the leaderboard queries of the read specification: a page
\* of one entry, and a limit int() raises on
ReadLimitInputs == {Number(1), String(<<"x">>)}

\* the query types whose store call is made to fail
FaultedQueries ==
  {"total_users", "total_activity_stats", "periodic_activity_stats",
   "total_swap_stats", "periodic_swap_stats", "leaderboard",
   "user_leaderboard_entry"}

\* events and entrances recorded one at a time, a midnight passing, and
\* every analytics query, answered, rejected or failing
NextReads ==
  \/ aresp = NoAResp /\ MetricsTick
  \/ \E i \in ReadWriters : InMetrics(aresp = NoAResp /\ nev < MaxEvents /\ handle(1, i))
  \/ InMetrics(aresp = NoAResp /\ get_user_state(1))
  \/ InMetrics(aresp = NoAResp /\ process_event(1))
  \/ InMetrics(aresp = NoAResp /\ process_entrance(1))
  \/ InAnalytics(get_total_activity_stats)
  \/ InAnalytics(get_total_users)
  \/ \E period_type \in PeriodTypeInputs, limit \in PeriodLimitInputs :
       InAnalytics(get_periodic_activity_stats(period_type, limit))
  \/ InAnalytics(get_total_swap_stats)
  \/ \E period_type \in PeriodTypeInputs, limit \in PeriodLimitInputs :
       InAnalytics(get_periodic_swap_stats(period_type, limit))
  \/ \E user_address \in Users \cup {""} : InAnalytics(get_user_entry(user_address))
  \/ \E scope \in ScopeInputs, limit \in ReadLimitInputs, last_key \in LastKeyInputs :
       InAnalytics(get_leaderboard(scope, limit, last_key))
  \/ \E query \in FaultedQueries : InAnalytics(analytics_fault(query))
  \/ InAnalytics(return_response)

SpecReads == InitRL /\ [][NextReads]_vars

(***************************************************************************)
(* lambda_handler: admission, then dispatch                                *)
(***************************************************************************)

\* a response that is never taken for a denial
rate_limit_response_ignored(res) == FALSE

\* lambda_handler: "if rate_limit_response: return rate_limit_response";
\* rate_limit returns the 429 response when it denies and None otherwise
rate_limit_response(res) == res = "denied"

\* the bodies POSTed to /metrics through lambda_handler
GatewayBodies == {1, 5}

\* lambda_handler is invoked with a POST to /metrics of a client: it calls
\* rate_limit first
lambda_handler(p, ip) ==
  /\ mpc[p] = "idle"
  /\ rate_limit(p, ip)

\* a step A of rate_limit inside lambda_handler.  When rate_limit returns
\* no response, the request is routed by its path to metrics.handle, which
\* parses the body; when it returns a response, lambda_handler returns it.
route(p, A) ==
  /\ A
  /\ IF pc'[p] = "idle" /\ ~rate_limit_response(resp'.result)
     THEN \E i \in GatewayBodies : Bodies[i].ip = loc[p].ip /\ handle(p, i)
     ELSE UNCHANGED <<metrics, mpc, mloc, mresp, nev, recorded>>
  /\ UNCHANGED rlhist
  /\ UNCHANGED aresp

\* concurrent invocations of lambda_handler for /metrics within one second of
\* one window, the stores working
NextGateway ==
  \/ \E p \in Procs \cap Handlers :
       Plain(nreq < MaxReqs + 1 /\ lambda_handler(p, "ipA"))
  \/ \E p \in Procs \cap Handlers : route(p, check_rate_limits(p))
  \/ \E p \in Procs \cap Handlers : Plain(update_new_ip(p))
  \/ \E p \in Procs \cap Handlers : route(p, decrement(p))
  \/ \E p \in Procs \cap Handlers : route(p, denied_after_condition(p))
  \/ \E h \in Procs \cap Handlers : InMetrics(get_user_state(h))
  \/ \E h \in Procs \cap Handlers : InMetrics(process_event(h))
  \/ \E h \in Procs \cap Handlers : InMetrics(process_entrance(h))

SpecGateway == InitRL /\ [][NextGateway]_vars

(***************************************************************************)
(* PeriodClock: the keys of the write path and of the read path            *)
(***************************************************************************)

\* the instants at or before t2 at which an event can have been written:
\* the first and the last second of each day
WriteTimes(t2) == {t \in 0..t2 : t % DayLength \in {0, DayLength - 1}}

\* the write path computes the key of period_type at instant t
\* (get_time_periods in process_<type>), the read path the last limit
\* periods at the clock's instant (get_past_periods)
period_keys(period_type, limit, t) ==
  /\ aresp = NoAResp
  /\ Answer("period_keys", <<period_type, limit, t, now>>, 200,
            [key |-> get_time_periods(t)[period_type],
             periods |-> get_past_periods(period_type, limit, now)], 0)

\* a day passes
PeriodsTick ==
  /\ aresp = NoAResp
  /\ now < T0 + MaxSpan * DayLength
  /\ now' = now + DayLength
  /\ UNCHANGED <<table, pc, loc, resp, nreq, faults>>
  /\ UNCHANGED rlhist
  /\ UNCHANGED mvars

NextPeriods ==
  \/ PeriodsTick
  \/ \E period_type \in {"daily", "weekly", "monthly"}, limit \in 1..MAX_PERIODS,
        t \in WriteTimes(now) :
       InAnalytics(period_keys(period_type, limit, t))
  \/ InAnalytics(return_response)

SpecPeriods == InitRL /\ [][NextPeriods]_vars

(***************************************************************************)
(* Rate limiter: properties                                                *)
(***************************************************************************)

\* a request of a known client has just been answered in the sequential run
SeqDone == pc[1] = "idle" /\ resp.result # "none" /\ resp.ip \in Clients

\* C1: in a sequential fault-free run, each of the first RATE_LIMIT requests
\* served from one window (the request that opens the window included) is
\* admitted, and the next one is denied with retry_after_seconds > 0.
C1_FirstLimitAdmitted ==
  SeqDone =>
    /\ seqh.idx \in 1..RATE_LIMIT => resp.result = "allowed"
    /\ seqh.idx = RATE_LIMIT + 1 => resp.result = "denied" /\ resp.retry > 0

\* the requests admitted with a current_time in the window that starts at w
AdmittedIn(w) ==
  SumOver(admits, {t \in Times : w <= t /\ t < w + BUCKET_DURATION})

\* C2: with concurrent invocations for one client and no store fault, the
\* requests admitted within the window of any stored last_replenish_time
\* are at most RATE_LIMIT.
C2_AdmissionsPerWindow == \A w \in wstarts : AdmittedIn(w) <= RATE_LIMIT

\* the handlers of the burst that were answered res
Answered(res) == {p \in Procs : burst.outcome[p] = res}

BurstDone == \A p \in Procs : burst.outcome[p] # "none"

\* C3: against a record with k credits and an unexpired window, concurrent
\* invocations never admit more than k requests, and when all N > k of them
\* have returned exactly k were admitted and N - k denied.
C3_BurstExactlyK ==
  /\ Cardinality(Answered("allowed")) <= burst.k
  /\ BurstDone /\ NProcs > burst.k =>
       /\ Cardinality(Answered("allowed")) = burst.k
       /\ Cardinality(Answered("denied")) = NProcs - burst.k

\* a burst of more requests than credits has ended, the last credit having
\* been fought over at the conditional update
C3_Witness ==
  /\ BurstDone
  /\ burst.k > 0
  /\ NProcs > burst.k
  /\ burst.condFailed
  /\ Cardinality(Answered("denied")) = NProcs - burst.k

\* C4: every rate-limit record holds 0 <= credits <= RATE_LIMIT.
C4_CreditsInRange ==
  \A c \in Clients :
    table[c].exists => 0 <= table[c].credits /\ table[c].credits <= RATE_LIMIT

\* the conditional decrement was refused on a record with no credit left,
\* after another handler took the last one
C4_Witness ==
  /\ table["ipA"].exists
  /\ table["ipA"].credits = 0
  /\ resp.result = "denied"
  /\ \E p \in Procs : pc[p] = "reread"

C6_FailOpen == resp.faulted => resp.result = "allowed"

\* C7: the first request of a client with no record is admitted and leaves
\* a record with RATE_LIMIT - 1 credits and last_replenish_time =
\* current_time.
C7_FirstRequest ==
  SeqDone /\ seqh.sawAbsent =>
    /\ resp.result = "allowed"
    /\ table[resp.ip].exists
    /\ table[resp.ip].credits = RATE_LIMIT - 1
    /\ table[resp.ip].last_replenish_time = resp.ct

(***************************************************************************)
(* MetricsRecorder: properties                                             *)
(***************************************************************************)

\* attribute a of the item of table tbl under key, 0 when absent
Attr(tbl, key, a) == if_not_exists(GetItem(metrics[tbl], key), a, 0)

\* the sum of attribute a over the items of table tbl whose key is in keys
SumAttr(tbl, keys, a) == SumOver([k \in keys |-> Attr(tbl, k, a)], keys)

\* the GENERAL items of period type pt ("all" for STAT#all#ALL)
GeneralOf(pt) == {k \in DOMAIN metrics.general : k[1] = pt}

\* the breakdown items of period type pt and of kind (SWAP, LENDING, EARN)
BreakdownOf(pt, kind) ==
  {k \in DOMAIN metrics.breakdown : k[1][1] = pt /\ k[2][1] = kind}

PeriodTypes == {"daily", "weekly", "monthly"}

\* every counter of event type t stands at n
CountersAt(t, kind, n) ==
  /\ \A pt \in PeriodTypes \cup {"all"} :
       /\ SumAttr("general", GeneralOf(pt), TypeInfo(t).count) = n
       /\ SumAttr("breakdown", BreakdownOf(pt, kind), "count") = n
  /\ SumAttr("users", DOMAIN metrics.users, TypeInfo(t).total) = n

\* the experience points of the events recorded
RecordedXp ==
  recorded.swap * TypeInfo("swap").xp + recorded.lending * TypeInfo("lending").xp
  + recorded.earn * TypeInfo("earn").xp

\* C8: the store holds all the mutations of every event answered 200 and
\* none of any other event: the event records are those of the events
\* recorded, and per event type the all-time and periodic GENERAL counters,
\* the breakdown counters and the users' totals all stand at the number of
\* events recorded, as do the users' and the leaderboard's points.
C8_AllOrNothing ==
  /\ DOMAIN metrics.events = recorded.keys
  /\ CountersAt("swap", "SWAP", recorded.swap)
  /\ CountersAt("lending", "LENDING", recorded.lending)
  /\ CountersAt("earn", "EARN", recorded.earn)
  /\ SumAttr("users", DOMAIN metrics.users, "total_xp") = RecordedXp
  /\ SumAttr("leaderboard", DOMAIN metrics.leaderboard, "xp") = RecordedXp

\* a transaction was aborted after another one had committed
C8_Witness ==
  /\ recorded.aborted
  /\ mresp.status = 500
  /\ recorded.keys # {}
  /\ \A h \in Handlers : mpc[h] = "idle"

\* C9: when no process_entrance call is in progress, dapp_entrances of the
\* all-time item equals the sum of dapp_entrances over the items of each
\* period type (a call that met a store fault has incremented no scope).
C9_EntranceAtomic ==
  (\A h \in Handlers : mpc[h] # "entrance") =>
    \A pt \in PeriodTypes :
      Attr("general", AllTime, "dapp_entrances")
        = SumAttr("general", GeneralOf(pt), "dapp_entrances")

\* C10: the all-time GENERAL swap_count equals the number of swaps recorded.
C10_SwapCount == Attr("general", AllTime, "swap_count") = recorded.swap

\* two swaps of one user, handled at the same time, have both been recorded:
\* each of them found the user new
C10_Witness ==
  /\ recorded.swap >= 2
  /\ Attr("general", AllTime, "new_users") > Cardinality(DOMAIN metrics.users)
  /\ \A h \in Handlers : mpc[h] = "idle"

\* C11: new_users counts each address once: with the store working, the
\* all-time GENERAL new_users, and the sum of new_users over the GENERAL
\* items of each period type, equal the number of addresses that have a
\* STATS record, also when first events of one address are handled
\* concurrently.
C11_NewUsersOnce ==
  /\ Attr("general", AllTime, "new_users") = Cardinality(DOMAIN metrics.users)
  /\ \A pt \in PeriodTypes :
       SumAttr("general", GeneralOf(pt), "new_users")
         = Cardinality(DOMAIN metrics.users)

\* attribute a of the item of table tbl of store under key, 0 when absent
AttrIn(store, tbl, key, a) == if_not_exists(GetItem(store[tbl], key), a, 0)

\* handler h commits the event of body i, of a user whose STATS record says
\* it was last active in the UTC day of this event
SameDayCommit(h, i) ==
  LET u == Bodies[i].payload.user_address IN
  /\ mpc[h] = "write"
  /\ mloc[h].b = i
  /\ mpc'[h] = "idle"
  /\ mresp'.status = 200
  /\ u \in DOMAIN metrics.users
  /\ DayOf(fromisoformat(metrics.users[u].last_active_timestamp))
       = DayOf(mloc[h].now)

\* C12: in a sequential fault-free run, an event of a user whose previous
\* recorded event (of any type) is of the same UTC day leaves active_users
\* of that day's, week's and month's GENERAL item unchanged and adds 1 to
\* their count of the event's type.
C12_SameDayActive ==
  [][\A i \in EventBodies :
       SameDayCommit(1, i) =>
         \A pt \in PeriodTypes :
           LET key == <<pt, get_time_periods(mloc[1].now)[pt]>>
               count == TypeInfo(Bodies[i].eventType).count IN
           /\ AttrIn(metrics', "general", key, "active_users")
                = AttrIn(metrics, "general", key, "active_users")
           /\ AttrIn(metrics', "general", key, count)
                = AttrIn(metrics, "general", key, count) + 1]_vars

\* one user has recorded two events in one day, of which it is the one
\* active user
C12_Witness ==
  /\ mpc[1] = "idle"
  /\ mresp.status = 200
  /\ Cardinality(DOMAIN metrics.users) = 1
  /\ \E k \in GeneralOf("daily") :
       /\ Attr("general", k, "active_users") = 1
       /\ Attr("general", k, "swap_count") + Attr("general", k, "lending_count")
            + Attr("general", k, "earn_count") >= 2

\* the bodies with no eventType, with an unknown eventType, or of a swap,
\* lending or earn event whose payload lacks a required field
Malformed ==
  {i \in 1..Len(Bodies) :
     \/ Bodies[i].eventType \notin {"entrance", "swap", "lending", "earn"}
     \/ /\ Bodies[i].eventType \in {"swap", "lending", "earn"}
        /\ \E k \in 1..Len(TypeInfo(Bodies[i].eventType).required) :
             TypeInfo(Bodies[i].eventType).required[k]
               \notin DOMAIN Bodies[i].payload}

C14_FailClosed ==
  (nev = 1 /\ faults > 0 /\ \A h \in Handlers : mpc[h] = "idle") =>
    /\ mresp.status = 500
    /\ metrics = EmptyStore

\* C15: event records are append-only and immutable: no step changes or
\* removes an event record once written, also when a later event carries
\* the same user, timestamp and tx_hash with a different payload.
C15_EventsImmutable ==
  [][\A k \in DOMAIN metrics.events :
       /\ k \in DOMAIN metrics'.events
       /\ metrics'.events[k] = metrics.events[k]]_vars

\* the store that holds nothing but GENERAL items under keys, each with the
\* single field dapp_entrances = n
EntranceStore(keys, n) ==
  [EmptyStore EXCEPT
     !.general = [k \in keys |-> [a \in {"dapp_entrances"} |-> n]]]

\* no entrance is in progress, and every entrance so far is of one UTC day
EntrancesOfOneDay ==
  /\ \A h \in Handlers : mpc[h] = "idle"
  /\ Cardinality(GeneralOf("daily")) = 1

SwapCommit(h, i) ==
  /\ mpc[h] = "write"
  /\ mloc[h].b = i
  /\ mpc'[h] = "idle"
  /\ mresp'.status = 200

\* the breakdown keys SWAP#s,d of the all-time scope and of the daily,
\* weekly and monthly scope of instant t
SwapCounters(t, s, d) ==
  {<<sc, <<"SWAP", s, d>>>> :
     sc \in {AllTime} \cup {<<pt, get_time_periods(t)[pt]>> : pt \in PeriodTypes}}

\* C20: a recorded swap from chain s to chain d adds exactly 1 to the
\* breakdown counter SWAP#s,d of the all-time scope and of the daily, weekly
\* and monthly scope of its period, changes no other breakdown counter, and
\* adds exactly 50 to the user's total_xp.
C20_SwapFrame ==
  [][\A h \in Handlers, i \in SwapBodies :
       SwapCommit(h, i) =>
         LET p == Bodies[i].payload
             own == SwapCounters(mloc[h].now, p.source_chain, p.destination_chain) IN
         /\ DOMAIN metrics'.breakdown = DOMAIN metrics.breakdown \cup own
         /\ \A k \in own :
              AttrIn(metrics', "breakdown", k, "count")
                = AttrIn(metrics, "breakdown", k, "count") + 1
         /\ \A k \in DOMAIN metrics.breakdown \ own :
              metrics'.breakdown[k] = metrics.breakdown[k]
         /\ AttrIn(metrics', "users", p.user_address, "total_xp")
              = AttrIn(metrics, "users", p.user_address, "total_xp") + 50]_vars

\* swaps of two routes have been recorded
C20_Witness ==
  /\ mresp.status = 200
  /\ recorded.swap >= 2
  /\ Attr("breakdown", <<AllTime, <<"SWAP", "eth", "arb">>>>, "count") >= 1
  /\ Attr("breakdown", <<AllTime, <<"SWAP", "arb", "eth">>>>, "count") >= 1

(***************************************************************************)
(* AnalyticsReader: properties                                             *)
(***************************************************************************)

\* the months since year 0 of a date
MonthIndex(d) == d[1] * 12 + d[2]

\* p is the start of the period that comes just before the one starting at q
JustBefore(period_type, p, q) ==
  CASE period_type = "daily" ->
         DaysFromCivil(q[1], q[2], q[3]) - DaysFromCivil(p[1], p[2], p[3]) = 1
    [] period_type = "weekly" ->
         DaysFromCivil(q[1], q[2], q[3]) - DaysFromCivil(p[1], p[2], p[3]) = 7
    [] period_type = "monthly" ->
         p[3] = 1 /\ MonthIndex(q) - MonthIndex(p) = 1

\* C16: a periodic activity query with a valid period type and a limit n in
\* 1..MAX_PERIODS is answered n entries: the first is the current period,
\* each next one the period just before (no duplicate, none skipped), and
\* each carries the counts of its GENERAL item, 0 where the item or the
\* attribute is absent.
C16_PeriodicSeries ==
  [][\A period_type \in PeriodTypes, n \in 1..MAX_PERIODS :
       (/\ aresp'.req = <<period_type, Number(n), now>>
        /\ get_periodic_activity_stats(period_type, Number(n))) =>
         /\ aresp'.status = 200
         /\ Len(aresp'.body) = n
         /\ aresp'.body[1].period = get_time_periods(now)[period_type]
         /\ \A k \in 1..(n - 1) :
              JustBefore(period_type, aresp'.body[k + 1].period, aresp'.body[k].period)
         /\ \A k \in 1..n :
              /\ \A a \in ActivityAttrs :
                   aresp'.body[k][a]
                     = Attr("general", <<period_type, aresp'.body[k].period>>, a)
              /\ aresp'.body[k].total_transactions
                   = aresp'.body[k].swap_count + aresp'.body[k].lending_count
                     + aresp'.body[k].earn_count]_vars

\* a series of MAX_PERIODS entries that reaches into the previous year was
\* answered, with an entry of zeros more recent than an entry with data
C16_Witness ==
  /\ aresp.query = "periodic_activity_stats"
  /\ aresp.status = 200
  /\ Len(aresp.body) = MAX_PERIODS
  /\ aresp.body[1].period[1] # aresp.body[MAX_PERIODS].period[1]
  /\ \E j, k \in 1..MAX_PERIODS :
       /\ j < k
       /\ aresp.body[j].total_transactions + aresp.body[j].dapp_entrances = 0
       /\ aresp.body[k].total_transactions + aresp.body[k].dapp_entrances > 0

\* the leaderboard key of user u in the ISO week of the clock
CurrentWeekKey(u) == <<get_time_periods(now).leaderboard_week, u>>

\* C17: absent records are read as zeros, not as errors: the total activity
\* query with no STAT#all#ALL GENERAL item answers 200 with every field 0,
\* the total users query then answers 200 with 0, and the user entry query
\* answers 200 with global_total_xp = 0 when the user has no STATS item and
\* weekly_xp = 0 when the user has no entry in the current week's
\* leaderboard, whatever the other one holds.
C17_AbsentAsZero ==
  [][/\ aresp'.query = "total_activity_stats" /\ get_total_activity_stats
          /\ AllTime \notin DOMAIN metrics.general =>
          /\ aresp'.status = 200
          /\ \A f \in DOMAIN aresp'.body : aresp'.body[f] = 0
          /\ DOMAIN aresp'.body
               = {"total_transactions", "swap_count", "lending_count", "earn_count",
                  "dapp_entrances", "total_users"}
     /\ aresp'.query = "total_users" /\ get_total_users
          /\ AllTime \notin DOMAIN metrics.general =>
          /\ aresp'.status = 200
          /\ aresp'.body.total_users = 0
     /\ \A u \in Users :
          (aresp'.req = <<u, now>> /\ get_user_entry(u)) =>
            /\ aresp'.status = 200
            /\ u \notin DOMAIN metrics.users => aresp'.body.global_total_xp = 0
            /\ u \in DOMAIN metrics.users =>
                 aresp'.body.global_total_xp = metrics.users[u].total_xp
            /\ CurrentWeekKey(u) \notin DOMAIN metrics.leaderboard =>
                 aresp'.body.weekly_xp = 0
            /\ CurrentWeekKey(u) \in DOMAIN metrics.leaderboard =>
                 aresp'.body.weekly_xp = metrics.leaderboard[CurrentWeekKey(u)].xp]_vars

\* the entry of a user with points from an earlier week and none in the
\* current week was answered
C17_Witness ==
  /\ aresp.query = "user_leaderboard_entry"
  /\ aresp.status = 200
  /\ aresp.body.global_total_xp > 0
  /\ aresp.body.weekly_xp = 0

\* C18: a leaderboard query whose scope is neither global nor weekly is
\* answered 400 and issues no query to the store, whatever its limit and
\* lastKey.
C18_BadScopeRejected ==
  (aresp.query = "leaderboard" /\ aresp.req # <<>>
     /\ aresp.req[1] \notin {"global", "weekly"}) =>
    /\ aresp.status = 400
    /\ aresp.calls = 0

(***************************************************************************)
(* MetricsRecorder: properties of the counters                             *)
(***************************************************************************)

StoreTables == {"general", "breakdown", "users", "leaderboard"}

\* the accumulators of the items of a table
Accumulators(tbl) ==
  CASE tbl = "general" -> {"swap_count", "lending_count", "earn_count",
                           "dapp_entrances", "new_users", "active_users"}
    [] tbl = "breakdown" -> {"count"}
    [] tbl = "users" -> {"total_xp", "total_swap_count", "total_lending_count",
                         "total_earn_count"}
    [] tbl = "leaderboard" -> {"xp"}

\* C21: no step lowers an accumulator or removes the item that carries it:
\* not a recorded event or entrance, not one that failed, not a query.
C21_Monotonic ==
  [][metrics' # metrics =>
       \A tbl \in StoreTables :
         \A k \in DOMAIN metrics[tbl] :
           /\ k \in DOMAIN metrics'[tbl]
           /\ \A a \in Accumulators(tbl) :
                AttrIn(metrics', tbl, k, a) >= AttrIn(metrics, tbl, k, a)]_vars

\* an event and an entrance have been recorded on one day, and a request
\* has failed
C21_Witness ==
  /\ mresp.status = 500
  /\ faults > 0
  /\ recorded.swap + recorded.lending >= 1
  /\ \E k \in GeneralOf("daily") :
       /\ Attr("general", k, "dapp_entrances") >= 1
       /\ Attr("general", k, "active_users") >= 1

\* C22: in every state, for swap_count, lending_count and earn_count, the
\* value of the all-time GENERAL item equals the sum over the daily GENERAL
\* items, the sum over the weekly ones and the sum over the monthly ones.
C22_AllTimeIsSum ==
  \A a \in {"swap_count", "lending_count", "earn_count"} :
    \A pt \in PeriodTypes :
      Attr("general", AllTime, a) = SumAttr("general", GeneralOf(pt), a)

\* events have been recorded on two days of two weeks, beside a transaction
\* that was cancelled
C22_Witness ==
  /\ Cardinality(GeneralOf("daily")) = 2
  /\ Cardinality(GeneralOf("weekly")) = 2
  /\ Cardinality(GeneralOf("monthly")) = 1
  /\ Attr("general", AllTime, "swap_count") + Attr("general", AllTime, "lending_count")
       + Attr("general", AllTime, "earn_count") = 2

\* two requests have been made and answered, both with the same swap
SameSwapTwice ==
  /\ nev = 2
  /\ \A h \in Handlers : mpc[h] = "idle"
  /\ Cardinality(recorded.keys) <= 1

\* C23: recording the same swap payload twice succeeds both times: the
\* all-time swap_count stands at 2 and the user's total_xp at 100, with one
\* event record (no deduplication on tx_hash).
C23_NotIdempotent ==
  SameSwapTwice =>
    /\ recorded.swap = 2
    /\ mresp.status = 200
    /\ Attr("general", AllTime, "swap_count") = 2
    /\ Cardinality(DOMAIN metrics.users) = 1
    /\ \A u \in DOMAIN metrics.users : Attr("users", u, "total_xp") = 100
    /\ Cardinality(DOMAIN metrics.events) = 1

\* the same swap was recorded twice, the second time after the first had
\* been answered (the user was no longer new)
C23_Witness ==
  /\ SameSwapTwice
  /\ recorded.swap = 2
  /\ Attr("general", AllTime, "new_users") = 1

(***************************************************************************)
(* Rate limiter: the record's state machine                                *)
(***************************************************************************)

\* handler p replaces the record of client c after its read found the
\* window expired (current_time - last_replenish_time >= BUCKET_DURATION)
Rollover(p, c) ==
  /\ pc[p] = "put_reset"
  /\ loc[p].ip = c
  /\ table'[c] = ResetItem(loc[p].ct, now)

\* C24: in every step, under any interleaving, the credits of an existing
\* record stay equal or decrease by exactly 1, except when the record is
\* replaced by a request that observed the window expired; an exhausted
\* record becomes active again only so.
C24_CreditsStateMachine ==
  [][table' # table =>
       \A c \in Clients :
         table[c].exists =>
           \/ table'[c].credits \in {table[c].credits, table[c].credits - 1}
           \/ \E p \in Procs : Rollover(p, c)]_vars

\* handler p reads a record with no credits in an unexpired window and
\* its request is denied by check_rate_limits
DeniedOnRead(p) ==
  /\ pc[p] = "get"
  /\ table[loc[p].ip].exists
  /\ ~Expired(loc[p].ct, table[loc[p].ip])
  /\ table[loc[p].ip].credits <= 0
  /\ check_rate_limits(p)

\* C25: a request denied because the record it read has no credits and an
\* unexpired window writes nothing (credits, last_replenish_time and ttl of
\* every record are unchanged), and the denial reports reset_time =
\* last_replenish_time + BUCKET_DURATION and retry_after_seconds =
\* max(0, reset_time - now).
C25_DenialWritesNothing ==
  [][resp' # resp /\ (\E p \in Procs : DeniedOnRead(p)) =>
       /\ table' = table
       /\ resp'.result = "denied"
       /\ resp'.reset_time = table[resp'.ip].last_replenish_time + BUCKET_DURATION
       /\ resp'.retry = Max(0, resp'.reset_time - now)]_vars

\* a request issued one second into the window of an exhausted record has
\* been denied
C25_Witness ==
  /\ SeqDone
  /\ resp.result = "denied"
  /\ table[resp.ip].credits = 0
  /\ resp.ct > table[resp.ip].last_replenish_time
  /\ resp.retry > 0
  /\ resp.retry < BUCKET_DURATION

(***************************************************************************)
(* MetricsRecorder: the activity increments                                *)
(***************************************************************************)

\* the increment the user's STATS record calls for in period type pt, for
\* an event handled at instant t
ExpectedInc(u, pt, t) ==
  IF u \notin DOMAIN metrics.users THEN 1
  ELSE IF get_time_periods(fromisoformat(metrics.users[u].last_active_timestamp))[pt]
            # get_time_periods(t)[pt]
  THEN 1 ELSE 0

C27_FirstEventOnly ==
  [][metrics' # metrics =>
       \A u \in DOMAIN metrics.users :
         \A a \in {"first_active_timestamp", "ip_address", "leaderboard_scope"} :
           AttrIn(metrics', "users", u, a) = AttrIn(metrics, "users", u, a)]_vars

\* C28: every STATS record carries leaderboard_scope = "GLOBAL" and a
\* first_active_timestamp, and its user has exactly one entry in the global
\* leaderboard index, also when the get_item that preceded the user's first
\* write raised.
C28_EveryUserRanked ==
  \A u \in DOMAIN metrics.users :
    /\ if_not_exists(metrics.users[u], "leaderboard_scope", "") = "GLOBAL"
    /\ "first_active_timestamp" \in DOMAIN metrics.users[u]
    /\ Cardinality({e \in GlobalIndex : e[2] = u}) = 1

(***************************************************************************)
(* lambda_handler: properties                                              *)
(***************************************************************************)

\* rate_limit returns for the request of p with outcome res in this step
Returns(p, res) == pc[p] # "idle" /\ pc'[p] = "idle" /\ resp'.result = res

\* C29: the admission decision comes before dispatch.  When rate_limit
\* denies the request of p, the answer is the denial, metrics.handle is not
\* entered (no request is counted, no handler leaves idle) and the metrics
\* store is as it was; metrics.handle is entered, and a handler reads or
\* writes the metrics store, only for a request rate_limit has admitted.
C29_AdmissionBeforeDispatch ==
  [][\A p \in Procs \cap Handlers :
       /\ Returns(p, "denied") =>
            /\ resp'.retry = Max(0, resp'.reset_time - now)
            /\ mpc[p] = "idle" /\ mpc'[p] = "idle"
            /\ nev' = nev /\ mresp' = mresp
            /\ metrics' = metrics
       /\ (mpc[p] = "idle" /\ mpc'[p] # "idle") => Returns(p, "allowed")
       /\ nev' # nev => \E q \in Procs \cap Handlers : Returns(q, "allowed")
       /\ mpc[p] # "idle" => pc[p] = "idle"]_vars

\* a request has been denied after an earlier one was admitted and
\* recorded, while another admitted request is inside its handler
C29_Witness ==
  /\ resp.result = "denied"
  /\ nev >= 1
  /\ \E p \in Procs \cap Handlers : pc[p] = "idle" /\ mpc[p] = "idle"
  /\ \E p \in Procs \cap Handlers : mpc[p] # "idle"

(***************************************************************************)
(* PeriodClock: properties                                                 *)
(***************************************************************************)

\* the number of the Monday-to-Sunday week of a day, counted from the week
\* of Monday 2024-12-23 (Day0 is the Sunday that ends it)
WeekOf(day) == (day - (Day0 - 6)) \div 7

\* instant t lies in one of the last limit periods of period_type, the last
\* of which holds the later instant t2
InLastPeriods(period_type, limit, t, t2) ==
  CASE period_type = "daily" -> DayOf(t2) - DayOf(t) < limit
    [] period_type = "weekly" -> WeekOf(DayOf(t2)) - WeekOf(DayOf(t)) < limit
    [] period_type = "monthly" ->
         MonthIndex(CivilFromDays(DayOf(t2))) - MonthIndex(CivilFromDays(DayOf(t)))
           < limit

\* C30: the write path and the read path agree on period keys: the key
\* get_time_periods gives a write instant t for a period type is among the
\* keys get_past_periods lists at a later instant exactly when t lies in
\* one of the last limit periods; the weekly key is the Monday on or before
\* t and the monthly key the first day of t's month.
C30_KeysAgree ==
  aresp.query = "period_keys" =>
    LET period_type == aresp.req[1]
        limit == aresp.req[2]
        t == aresp.req[3]
        t2 == aresp.req[4]
        key == aresp.body.key
        periods == aresp.body.periods
        keyday == DaysFromCivil(key[1], key[2], key[3]) IN
    /\ (\E k \in 1..Len(periods) : periods[k] = key)
         <=> InLastPeriods(period_type, limit, t, t2)
    /\ period_type = "weekly" =>
         /\ (keyday - (Day0 - 6)) % 7 = 0
         /\ keyday <= DayOf(t)
         /\ DayOf(t) - keyday <= 6
    /\ period_type = "monthly" =>
         /\ key[3] = 1
         /\ key[1] = CivilFromDays(DayOf(t))[1]
         /\ key[2] = CivilFromDays(DayOf(t))[2]

\* an event written in the last week of one year is found by a weekly read
\* of MAX_PERIODS periods made in the next year, as its oldest period; the
\* week's key is not the day of the write
C30_Witness ==
  /\ aresp.query = "period_keys"
  /\ aresp.req[1] = "weekly"
  /\ aresp.req[2] = MAX_PERIODS
  /\ aresp.body.periods[MAX_PERIODS] = aresp.body.key
  /\ aresp.body.key # get_time_periods(aresp.req[3]).daily
  /\ CivilFromDays(DayOf(aresp.req[3]))[1] # CivilFromDays(DayOf(aresp.req[4]))[1]

(***************************************************************************)
(* MetricsRecorder: the rejection of a payload                             *)
(***************************************************************************)

\* the swap, lending and earn bodies whose payload lacks a required field
MissingFieldBodies ==
  {i \in Malformed : Bodies[i].eventType \in {"swap", "lending", "earn"}}

\* the names a sequence holds
Range(seq) == {seq[k] : k \in 1..Len(seq)}

\* C31: a swap, lending or earn payload that lacks required fields is
\* rejected with a reason that lists exactly the required fields absent from
\* the payload, and no field that is present.
C31_ListsMissingFields ==
  [][\A h \in Handlers, i \in MissingFieldBodies :
       mresp' # mresp /\ handle(h, i) =>
         /\ mresp'.status = 400
         /\ Range(mresp'.error)
              = Range(TypeInfo(Bodies[i].eventType).required)
                  \ DOMAIN Bodies[i].payload]_vars

(***************************************************************************)
(* AnalyticsReader: the reads are projections                              *)
(***************************************************************************)

\* C32: every analytics query (total and periodic activity, total users,
\* total and periodic swap breakdowns, leaderboard, user entry) leaves every
\* record of the metrics store as it was, whether it is answered, rejected
\* or fails.
C32_ReadsArePure ==
  [][aresp' # aresp => metrics' = metrics]_vars

\* a periodic swap query has been answered from a store that holds swaps
C32_Witness ==
  /\ aresp.query = "periodic_swap_stats"
  /\ aresp.status = 200
  /\ aresp.body.data[1].total_swap_count > 0
  /\ DOMAIN metrics.events # {}

(***************************************************************************)
(* MetricsRecorder: experience points                                      *)
(***************************************************************************)

\* C33: for every STATS record, total_xp = 50 * total_swap_count
\* + 100 * (total_lending_count + total_earn_count), an absent total read
\* as 0.
C33_XpFromTotals ==
  \A u \in DOMAIN metrics.users :
    Attr("users", u, "total_xp")
      = 50 * Attr("users", u, "total_swap_count")
        + 100 * (Attr("users", u, "total_lending_count")
                 + Attr("users", u, "total_earn_count"))

\* a user has a swap and a lending event recorded
C33_Witness ==
  \E u \in DOMAIN metrics.users :
    /\ Attr("users", u, "total_swap_count") = 1
    /\ Attr("users", u, "total_lending_count") = 1
    /\ Attr("users", u, "total_earn_count") = 0
    /\ Attr("users", u, "total_xp") = 150

\* C34: after every write of the store (which starts empty), for every user
\* the xp of its weekly leaderboard entries add up to total_xp of its STATS
\* record; and first_xp_timestamp of a leaderboard entry never changes once
\* it is set.
C34_LeaderboardXp ==
  [][metrics' # metrics =>
       /\ \A u \in Users :
            SumOver([k \in {j \in DOMAIN metrics'.leaderboard : j[2] = u} |->
                       AttrIn(metrics', "leaderboard", k, "xp")],
                    {j \in DOMAIN metrics'.leaderboard : j[2] = u})
              = AttrIn(metrics', "users", u, "total_xp")
       /\ \A k \in DOMAIN metrics.leaderboard :
            "first_xp_timestamp" \in DOMAIN metrics.leaderboard[k] =>
              AttrIn(metrics', "leaderboard", k, "first_xp_timestamp")
                = metrics.leaderboard[k].first_xp_timestamp]_vars

\* an entry has received the XP of two swaps recorded at different instants
\* of one week, and carries the instant of the first
C34_Witness ==
  \E k \in DOMAIN metrics.leaderboard :
    /\ Attr("leaderboard", k, "xp") = 100
    /\ Attr("users", k[2], "total_xp") = 100
    /\ metrics.leaderboard[k].first_xp_timestamp
         # metrics.users[k[2]].last_active_timestamp

(***************************************************************************)
(* Breakdown counters and GENERAL counters                                 *)
(***************************************************************************)

\* the partitions of the store that hold counters: STAT#all#ALL and one
\* per period
Scopes ==
  DOMAIN metrics.general \cup {k[1] : k \in DOMAIN metrics.breakdown}

\* the sum of count over the breakdown items of kind in the partition
BreakdownTotal(scope, kind) ==
  SumAttr("breakdown",
          {k \in DOMAIN metrics.breakdown : k[1] = scope /\ k[2][1] = kind},
          "count")

\* C35: in every partition (all-time, and each day, week and month) the
\* counts of the SWAP# items add up to swap_count of the GENERAL item, those
\* of the LENDING# items to lending_count and those of the EARN# items to
\* earn_count; so total_swap_stats, which reads the total from GENERAL,
\* and periodic_swap_stats, which sums the breakdown items, report for a
\* partition the total the other source holds.
C35_BreakdownsAddUp ==
  /\ \A scope \in Scopes :
       /\ BreakdownTotal(scope, "SWAP") = Attr("general", scope, "swap_count")
       /\ BreakdownTotal(scope, "LENDING") = Attr("general", scope, "lending_count")
       /\ BreakdownTotal(scope, "EARN") = Attr("general", scope, "earn_count")
  /\ aresp.query = "total_swap_stats" /\ aresp.status = 200 =>
       aresp.body.total_swap_count
         = SumOver(aresp.body.swap_routes, DOMAIN aresp.body.swap_routes)
  /\ aresp.query = "periodic_swap_stats" /\ aresp.status = 200 =>
       \A k \in 1..Len(aresp.body.data) :
         aresp.body.data[k].total_swap_count
           = Attr("general", <<aresp.body.period_type, aresp.body.data[k].period_start>>,
                  "swap_count")

\* the total swap query has been answered from a store with swaps on two
\* routes
C35_Witness ==
  /\ aresp.query = "total_swap_stats"
  /\ aresp.status = 200
  /\ aresp.body.total_swap_count = 2
  /\ Cardinality(DOMAIN aresp.body.swap_routes) = 2

(***************************************************************************)
(* Rate limiter: the writes of the record                                  *)
(***************************************************************************)

\* C36: under every interleaving of concurrent rate_limit invocations for
\* one client, last_replenish_time of the client's record never decreases:
\* no creation or replacement stores a window start older than the one it
\* overwrites.
C36_WindowStartMonotonic ==
  [][table' # table =>
       \A c \in Clients :
         table[c].exists =>
           /\ table'[c].exists
           /\ table'[c].last_replenish_time >= table[c].last_replenish_time]_vars

\* C37: the conditional decrement of an admitted request lowers credits of
\* the client's record by exactly 1 and changes nothing else:
\* last_replenish_time and ttl of that record, and every other client's
\* record, are as they were.
C37_DecrementFrame ==
  [][table' # table =>
       \A p \in Procs :
         pc[p] = "update" /\ decrement(p) =>
           /\ resp'.result = "allowed"
           /\ table' = [table EXCEPT ![loc[p].ip].credits = table[loc[p].ip].credits - 1]
           /\ table'[loc[p].ip].last_replenish_time = table[loc[p].ip].last_replenish_time
           /\ table'[loc[p].ip].ttl = table[loc[p].ip].ttl
           /\ \A c \in Clients \ {loc[p].ip} : table'[c] = table[c]]_vars

\* the decrement has admitted the request that rolled the window over,
\* while the other client has a record of its own
C37_Witness ==
  /\ resp.result = "allowed"
  /\ resp.ip \in Clients
  /\ table[resp.ip].exists
  /\ \A p \in Procs : pc[p] = "idle"
  /\ table[resp.ip].credits = RATE_LIMIT - 1
  /\ table[resp.ip].last_replenish_time = resp.ct
  /\ \E c \in Clients \ {resp.ip} : table[c].exists

\* C38: a request whose client identifier is "unknown" is admitted, and
\* rate_limit neither reads nor writes the rate-limit store for it (no
\* get_item is pending after the call, the store is as it was), however
\* many such requests have arrived.
C38_UnknownBypasses ==
  [][nreq' # nreq =>
       \A p \in Procs :
         rate_limit(p, Unknown) =>
           /\ table' = table
           /\ pc'[p] = "idle"
           /\ loc' = loc
           /\ resp'.result = "allowed"
           /\ resp'.ip = Unknown]_vars

\* every request so far came without a client identifier: the last one is
\* admitted and the store is still empty
C38_Witness ==
  /\ nreq = MaxReqs + 2
  /\ resp.result = "allowed"
  /\ resp.ip = Unknown
  /\ \A c \in Clients : ~table[c].exists
  /\ \A p \in Procs : pc[p] = "idle"

(***************************************************************************)
(* MetricsRecorder: the active users of a period                           *)
(***************************************************************************)

\* the users with a recorded swap, lending or earn event in the period of
\* type pt that starts at start
ActiveIn(pt, start) == {u \in Users : <<pt, start, u>> \in recorded.active}

\* C39: in every reachable state, under any interleaving of concurrent
\* record operations, active_users of each daily GENERAL item is the number
\* of distinct user addresses with a recorded swap, lending or earn event in
\* that day, and likewise for the weekly and the monthly items.
C39_ActiveUsersDistinct ==
  \A pt \in PeriodTypes :
    \A k \in GeneralOf(pt) :
      Attr("general", k, "active_users") = Cardinality(ActiveIn(k[1], k[2]))

====
